---- MODULE Spec2Model ----
(***************************************************************************)
(* A model of the noamlang pipeline: lexer (src/src/lexer.rs), parser      *)
(* (src/src/parser.rs), type checker (src/src/typechecker.rs), interpreter *)
(* (src/src/interpreter.rs) and the driver (src/src/main.rs).              *)
(*                                                                         *)
(* Source text is a sequence of one-character strings.  Token texts, names *)
(* and messages are strings built with \o, as the code builds them with    *)
(* String::push.  Only ASCII characters are modelled.                      *)
(***************************************************************************)
EXTENDS Integers, Sequences, FiniteSets, TLC

VARIABLES source, lexer, tokens, pc, parsed, type_checker, check_pos,
          checked, interpreter, run_pos, output, ran

vars == <<source, lexer, tokens, pc, parsed, type_checker, check_pos,
          checked, interpreter, run_pos, output, ran>>

(***************************************************************************)
(* Characters                                                              *)
(***************************************************************************)

\* Option::None of current_char / peek
None == "<none>"

Digit == {"0", "1", "2", "3", "4", "5", "6", "7", "8", "9"}

Alphabetic ==
    {"a", "b", "c", "d", "e", "f", "g", "h", "i", "j", "k", "l", "m",
     "n", "o", "p", "q", "r", "s", "t", "u", "v", "w", "x", "y", "z",
     "A", "B", "C", "D", "E", "F", "G", "H", "I", "J", "K", "L", "M",
     "N", "O", "P", "Q", "R", "S", "T", "U", "V", "W", "X", "Y", "Z"}

Whitespace == {" ", "\t", "\n", "\r"}

IsWhitespace(c) == c \in Whitespace

IsAlphabetic(c) == c \in Alphabetic

IsDigit(c) == c \in Digit

IsAlphanumeric(c) == IsAlphabetic(c) \/ IsDigit(c)

DigitValue(c) ==
    CASE c = "0" -> 0 [] c = "1" -> 1 [] c = "2" -> 2 [] c = "3" -> 3
      [] c = "4" -> 4 [] c = "5" -> 5 [] c = "6" -> 6 [] c = "7" -> 7
      [] c = "8" -> 8 [] c = "9" -> 9

\* the characters of cs pushed onto one String
RECURSIVE Join(_)
Join(cs) == IF cs = <<>> THEN "" ELSE Head(cs) \o Join(Tail(cs))

RECURSIVE TrimStart(_)
TrimStart(cs) ==
    IF cs # <<>> /\ IsWhitespace(Head(cs)) THEN TrimStart(Tail(cs)) ELSE cs

RECURSIVE TrimEnd(_)
TrimEnd(cs) ==
    IF cs # <<>> /\ IsWhitespace(cs[Len(cs)])
    THEN TrimEnd(SubSeq(cs, 1, Len(cs) - 1))
    ELSE cs

\* str::trim
Trim(cs) == TrimEnd(TrimStart(cs))

(***************************************************************************)
(* str::parse::<i64>: an optional sign, then one or more digits, an error  *)
(* when the number does not fit 64 bits.  The fit is decided on the digit  *)
(* string (the evaluator's integers are narrower than the code's).         *)
(***************************************************************************)

\* the decimal digits of 2^63 - 1 and of 2^63
I64MaxDigits == <<9, 2, 2, 3, 3, 7, 2, 0, 3, 6, 8, 5, 4, 7, 7, 5, 8, 0, 7>>

I64MinDigits == <<9, 2, 2, 3, 3, 7, 2, 0, 3, 6, 8, 5, 4, 7, 7, 5, 8, 0, 8>>

RECURSIVE StripZeros(_)
StripZeros(ds) ==
    IF ds # <<>> /\ Head(ds) = 0 THEN StripZeros(Tail(ds)) ELSE ds

RECURSIVE LexLeq(_, _)
LexLeq(a, b) ==
    IF a = <<>> THEN TRUE
    ELSE IF Head(a) # Head(b) THEN Head(a) < Head(b)
    ELSE LexLeq(Tail(a), Tail(b))

FitsDigits(ds, limit) ==
    LET s == StripZeros(ds)
    IN  \/ Len(s) < Len(limit)
        \/ Len(s) = Len(limit) /\ LexLeq(s, limit)

RECURSIVE DigitsValue(_, _)
DigitsValue(ds, acc) ==
    IF ds = <<>> THEN acc ELSE DigitsValue(Tail(ds), 10 * acc + Head(ds))

ParseI64(cs) ==
    LET neg  == cs # <<>> /\ Head(cs) = "-"
        sign == cs # <<>> /\ Head(cs) \in {"-", "+"}
        body == IF sign THEN Tail(cs) ELSE cs
        ds   == [k \in 1..Len(body) |-> DigitValue(body[k])]
    IN  IF body = <<>> \/ \E k \in 1..Len(body) : ~IsDigit(body[k])
        THEN [ok |-> FALSE, value |-> 0]
        ELSE IF ~FitsDigits(ds, IF neg THEN I64MinDigits ELSE I64MaxDigits)
        THEN [ok |-> FALSE, value |-> 0]
        ELSE [ok |-> TRUE,
              value |-> IF neg THEN 0 - DigitsValue(ds, 0)
                               ELSE DigitsValue(ds, 0)]

(***************************************************************************)
(* Tokens (lexer.rs, enum Token)                                           *)
(***************************************************************************)

Tok(ty) == [type |-> ty, text |-> "", value |-> 0]

TokIdentifier(s) == [type |-> "Identifier", text |-> s, value |-> 0]

TokStringLiteral(s) == [type |-> "StringLiteral", text |-> s, value |-> 0]

TokIntegerLiteral(n) == [type |-> "IntegerLiteral", text |-> "", value |-> n]

TokComment(s) == [type |-> "Comment", text |-> s, value |-> 0]

EOF == Tok("EOF")

(***************************************************************************)
(* Lexer (lexer.rs)                                                        *)
(***************************************************************************)

\* Lexer::new: current_char is the first character, input the rest
LexerNew(text) ==
    IF text = <<>>
    THEN [input |-> <<>>, current_char |-> None]
    ELSE [input |-> Tail(text), current_char |-> Head(text)]

Advance(l) ==
    IF l.input = <<>>
    THEN [input |-> <<>>, current_char |-> None]
    ELSE [input |-> Tail(l.input), current_char |-> Head(l.input)]

Peek(l) == IF l.input = <<>> THEN None ELSE Head(l.input)

RECURSIVE SkipWhitespace(_)
SkipWhitespace(l) ==
    IF l.current_char # None /\ IsWhitespace(l.current_char)
    THEN SkipWhitespace(Advance(l))
    ELSE l

\* the loop of read_comment: up to the end of the line or of the input
RECURSIVE ReadCommentLoop(_, _)
ReadCommentLoop(l, acc) ==
    IF l.current_char = None \/ l.current_char \in {"\n", "\r"}
    THEN [lexer |-> l, chars |-> acc]
    ELSE ReadCommentLoop(Advance(l), Append(acc, l.current_char))

ReadComment(l) ==
    LET r == ReadCommentLoop(Advance(Advance(l)), <<>>)
    IN  [lexer |-> r.lexer, text |-> Join(Trim(r.chars))]

RECURSIVE ReadIdentifierLoop(_, _)
ReadIdentifierLoop(l, acc) ==
    IF l.current_char # None
       /\ (IsAlphanumeric(l.current_char) \/ l.current_char = "_")
    THEN ReadIdentifierLoop(Advance(l), acc \o l.current_char)
    ELSE [lexer |-> l, text |-> acc]

ReadIdentifier(l) == ReadIdentifierLoop(l, "")

RECURSIVE ReadNumberLoop(_, _)
ReadNumberLoop(l, acc) ==
    IF l.current_char # None /\ IsDigit(l.current_char)
    THEN ReadNumberLoop(Advance(l), Append(acc, l.current_char))
    ELSE [lexer |-> l, chars |-> acc]

\* number.parse::<i64>().unwrap_or(0)
ReadNumber(l) ==
    LET r == ReadNumberLoop(l, <<>>)
        p == ParseI64(r.chars)
    IN  [lexer |-> r.lexer, value |-> IF p.ok THEN p.value ELSE 0]

RECURSIVE ReadStringLiteralLoop(_, _)
ReadStringLiteralLoop(l, acc) ==
    IF l.current_char = None THEN [lexer |-> l, chars |-> acc]
    ELSE IF l.current_char = ")" THEN [lexer |-> Advance(l), chars |-> acc]
    ELSE ReadStringLiteralLoop(Advance(l), Append(acc, l.current_char))

\* skips the opening parenthesis, reads up to the next ')' or the end
ReadStringLiteral(l) == ReadStringLiteralLoop(Advance(l), <<>>)

\* Keyword without True and False: they lex as identifiers
KeywordNoBooleans(identifier) ==
    CASE identifier = "String"  -> Tok("TypeString")
      [] identifier = "Integer" -> Tok("TypeInteger")
      [] identifier = "Unknown" -> Tok("TypeUnknown")
      [] identifier = "if"      -> Tok("If")
      [] identifier = "func"    -> Tok("Func")
      [] OTHER                  -> TokIdentifier(identifier)

\* the second match of read_type_value: type names and keywords
Keyword(identifier) ==
    CASE identifier = "String"  -> Tok("TypeString")
      [] identifier = "Integer" -> Tok("TypeInteger")
      [] identifier = "True"    -> Tok("TypeTrue")
      [] identifier = "False"   -> Tok("TypeFalse")
      [] identifier = "Unknown" -> Tok("TypeUnknown")
      [] identifier = "if"      -> Tok("If")
      [] identifier = "func"    -> Tok("Func")
      [] OTHER                  -> TokIdentifier(identifier)

\* ReadTypeValue looking for the parenthesis one character too far
ReadTypeValuePeek(l) ==
    LET id == ReadIdentifier(l)
        sv == ReadStringLiteral(id.lexer)
        iv == ParseI64(sv.chars)
    IN  IF Peek(id.lexer) = "(" /\ id.text = "String"
        THEN [lexer |-> sv.lexer, token |-> TokStringLiteral(Join(sv.chars))]
        ELSE IF Peek(id.lexer) = "(" /\ id.text = "Integer"
        THEN [lexer |-> sv.lexer,
              token |-> TokIntegerLiteral(IF iv.ok THEN iv.value ELSE 0)]
        ELSE [lexer |-> id.lexer, token |-> Keyword(id.text)]

ReadTypeValue(l) ==
    LET id == ReadIdentifier(l)
        sv == ReadStringLiteral(id.lexer)
        iv == ParseI64(sv.chars)
    IN  IF id.lexer.current_char = "(" /\ id.text = "String"
        THEN [lexer |-> sv.lexer, token |-> TokStringLiteral(Join(sv.chars))]
        ELSE IF id.lexer.current_char = "(" /\ id.text = "Integer"
        THEN [lexer |-> sv.lexer,
              token |-> TokIntegerLiteral(IF iv.ok THEN iv.value ELSE 0)]
        ELSE [lexer |-> id.lexer, token |-> Keyword(id.text)]

\* the Some('i') arm once "is" has been consumed: l is at the character
\* after the 's'
ReadIs(l) ==
    LET l1 == Advance(l)
        l2 == Advance(l1)
        l3 == Advance(l2)
        l4 == Advance(l3)
    IN  IF l.current_char = " " /\ l1.current_char = "n"
           /\ l2.current_char = "o" /\ l3.current_char = "t"
        THEN [lexer |-> l4, token |-> Tok("NotEquals")]
        ELSE IF l.current_char = " " /\ l1.current_char = "n"
                /\ l2.current_char = "o"
        THEN [lexer |-> l3, token |-> Tok("Equals")]
        ELSE IF l.current_char = " " /\ l1.current_char = "n"
        THEN [lexer |-> l2, token |-> Tok("Equals")]
        ELSE IF l.current_char = " "
        THEN [lexer |-> l1, token |-> Tok("Equals")]
        ELSE [lexer |-> l, token |-> Tok("Equals")]

\* ReadI reading the whole word before it classifies it
ReadIWholeWord(l) ==
    LET id == ReadIdentifierLoop(Advance(l), "i")
    IN  [lexer |-> id.lexer,
         token |-> IF id.text = "is" THEN Tok("Equals")
                   ELSE IF id.text = "if" THEN Tok("If")
                   ELSE TokIdentifier(id.text)]

\* the Some('i') arm of next_token
ReadI(l) ==
    LET l1 == Advance(l)
        id == ReadIdentifierLoop(l1, "i")
    IN  IF l1.current_char = "s"
        THEN ReadIs(Advance(l1))
        ELSE [lexer |-> id.lexer,
              token |-> IF id.text = "if" THEN Tok("If")
                                          ELSE TokIdentifier(id.text)]

Symbol(c) ==
    CASE c = "[" -> Tok("LeftBracket")
      [] c = "]" -> Tok("RightBracket")
      [] c = "{" -> Tok("LeftBrace")
      [] c = "}" -> Tok("RightBrace")
      [] c = "(" -> Tok("LeftParen")
      [] c = ")" -> Tok("RightParen")
      [] c = ":" -> Tok("Colon")
      [] c = "," -> Tok("Comma")

\* ReadSymbol without self.advance()
ReadSymbolNoAdvance(l) == [lexer |-> l, token |-> Symbol(l.current_char)]

\* a one-character token: the character is consumed
ReadSymbol(l) == [lexer |-> Advance(l), token |-> Symbol(l.current_char)]

RECURSIVE NextTokenAt(_)
\* next_token after skip_whitespace
NextTokenAt(l) ==
    LET c == l.current_char
    IN  IF c = "/" /\ Peek(l) = "/"
        THEN LET r == ReadComment(l)
             IN  [lexer |-> r.lexer, token |-> TokComment(r.text)]
        ELSE IF c = None THEN [lexer |-> l, token |-> EOF]
        ELSE IF c \in {"[", "]", "{", "}", "(", ")"}
        THEN ReadSymbol(l)
        ELSE IF c = "i" THEN ReadI(l)
        ELSE IF c \in {":", ","}
        THEN ReadSymbol(l)
        ELSE IF IsAlphabetic(c) THEN ReadTypeValue(l)
        ELSE IF IsDigit(c)
        THEN LET r == ReadNumber(l)
             IN  [lexer |-> r.lexer, token |-> TokIntegerLiteral(r.value)]
        ELSE NextTokenAt(SkipWhitespace(Advance(l)))

NextToken(l) == NextTokenAt(SkipWhitespace(l))

\* tokenize: next_token until EOF, which is pushed too
RECURSIVE TokenizeLoop(_, _)
TokenizeLoop(l, acc) ==
    LET r == NextToken(l)
    IN  IF r.token = EOF THEN Append(acc, r.token)
        ELSE TokenizeLoop(r.lexer, Append(acc, r.token))

Tokenize(text) == TokenizeLoop(LexerNew(text), <<>>)

\* the characters not yet consumed
Remaining(l) == Len(l.input) + (IF l.current_char = None THEN 0 ELSE 1)

(***************************************************************************)
(* AST (parser.rs, enum Expression, enum Statement, struct Parameter)      *)
(***************************************************************************)

ExprStringLiteral(s) == [kind |-> "StringLiteral", s |-> s]

ExprIntegerLiteral(i) == [kind |-> "IntegerLiteral", i |-> i]

ExprIdentifier(name) == [kind |-> "Identifier", name |-> name]

ExprFunctionCall(name, arguments) ==
    [kind |-> "FunctionCall", name |-> name, arguments |-> arguments]

ExprTypedValue(type_name, value) ==
    [kind |-> "TypedValue", type_name |-> type_name, value |-> value]

ExprBinaryOperation(left, operator, right) ==
    [kind |-> "BinaryOperation", left |-> left, operator |-> operator,
     right |-> right]

StmtExpression(expr) == [kind |-> "Expression", expr |-> expr]

StmtFunctionDeclaration(name, parameters, body) ==
    [kind |-> "FunctionDeclaration", name |-> name,
     parameters |-> parameters, body |-> body]

StmtIfStatement(condition, body) ==
    [kind |-> "IfStatement", condition |-> condition, body |-> body]

StmtComment(text) == [kind |-> "Comment", text |-> text]

Parameter(name, type_name) == [name |-> name, type_name |-> type_name]

(***************************************************************************)
(* Strings of numbers (format!("{}", n)) and of {:?}                       *)
(***************************************************************************)

DigitChar(d) ==
    CASE d = 0 -> "0" [] d = 1 -> "1" [] d = 2 -> "2" [] d = 3 -> "3"
      [] d = 4 -> "4" [] d = 5 -> "5" [] d = 6 -> "6" [] d = 7 -> "7"
      [] d = 8 -> "8" [] d = 9 -> "9"

RECURSIVE NatToString(_)
NatToString(n) ==
    IF n < 10 THEN DigitChar(n)
    ELSE NatToString(n \div 10) \o DigitChar(n % 10)

IntToString(n) == IF n < 0 THEN "-" \o NatToString(0 - n) ELSE NatToString(n)

\* {:?} of a string, without its quotes: the escapes of the characters a
\* source line can hold
EscapeDebug(s) ==
    Join([k \in 1..Len(s) |->
            CASE SubSeq(s, k, k) = "\"" -> "\\\""
              [] SubSeq(s, k, k) = "\\" -> "\\\\"
              [] SubSeq(s, k, k) = "\t" -> "\\t"
              [] SubSeq(s, k, k) = "\r" -> "\\r"
              [] SubSeq(s, k, k) = "\n" -> "\\n"
              [] OTHER -> SubSeq(s, k, k)])

\* {:?} of a Token
TokenDebug(tok) ==
    CASE tok.type \in {"Identifier", "StringLiteral", "Comment"} ->
           tok.type \o "(\"" \o EscapeDebug(tok.text) \o "\")"
      [] tok.type = "IntegerLiteral" ->
           "IntegerLiteral(" \o IntToString(tok.value) \o ")"
      [] OTHER -> tok.type

(***************************************************************************)
(* Parser (parser.rs).  Every parse_* operator takes the token vector and  *)
(* current_position and returns Result<node, String> with the position     *)
(* reached.  An error message is the sequence of its parts.                *)
(***************************************************************************)

NoNode == [kind |-> "None"]

POk(node, pos) == [ok |-> TRUE, node |-> node, pos |-> pos, err |-> <<>>]

PErr(msg, pos) == [ok |-> FALSE, node |-> NoNode, pos |-> pos, err |-> msg]

PeekToken(toks, pos) == IF pos >= Len(toks) THEN EOF ELSE toks[pos + 1]

IsAtEnd(toks, pos) == PeekToken(toks, pos) = EOF

Check(toks, pos, tok) == PeekToken(toks, pos) = tok

RECURSIVE ParseStatement(_, _), ParseBody(_, _, _), ParseExpression(_, _)

\* the loop of parse_parameters, entered with the next token not ')'
RECURSIVE ParseParametersLoop(_, _, _)
ParseParametersLoop(toks, pos, acc) ==
    LET name == PeekToken(toks, pos)
        ty   == PeekToken(toks, pos + 2)
        type_name ==
            CASE ty.type = "TypeString"  -> "String"
              [] ty.type = "TypeInteger" -> "Integer"
              [] ty.type = "TypeUnknown" -> "Unknown"
              [] OTHER                   -> ty.text
        params == Append(acc, Parameter(name.text, type_name))
    IN  IF name.type # "Identifier"
        THEN PErr(<<"Expected parameter name">>, pos + 1)
        ELSE IF ~Check(toks, pos + 1, Tok("Colon"))
        THEN PErr(<<"Expected ':' after parameter name">>, pos + 1)
        ELSE IF ty.type \notin {"TypeString", "TypeInteger", "TypeUnknown",
                                "Identifier"}
        THEN PErr(<<"Expected type name after ':'">>, pos + 3)
        ELSE IF Check(toks, pos + 3, Tok("RightParen"))
        THEN POk(params, pos + 3)
        ELSE IF ~Check(toks, pos + 3, Tok("Comma"))
        THEN PErr(<<"Expected ',' between parameters">>, pos + 3)
        ELSE ParseParametersLoop(toks, pos + 4, params)

ParseParameters(toks, pos) ==
    IF Check(toks, pos, Tok("RightParen"))
    THEN POk(<<>>, pos)
    ELSE ParseParametersLoop(toks, pos, <<>>)

\* body.push(self.parse_statement()?), statement the result of parse_statement
ParseBodyPush(toks, acc, statement) ==
    IF ~statement.ok THEN statement
    ELSE ParseBody(toks, statement.pos, Append(acc, statement.node))

\* while !check(RightBrace) && !is_at_end() { body.push(parse_statement()?) }
ParseBody(toks, pos, acc) ==
    IF Check(toks, pos, Tok("RightBrace")) \/ IsAtEnd(toks, pos)
    THEN POk(acc, pos)
    ELSE ParseBodyPush(toks, acc, ParseStatement(toks, pos))

\* parse_function_declaration after its body loop, body the loop's result
FunctionDeclarationEnd(toks, name, parameters, body) ==
    IF ~body.ok THEN body
    ELSE IF ~Check(toks, body.pos, Tok("RightBrace"))
    THEN PErr(<<"Expected '}' after function body">>, body.pos)
    ELSE POk(StmtFunctionDeclaration(name, parameters, body.node),
             body.pos + 1)

\* parse_function_declaration after parse_parameters()?, params its result
FunctionDeclarationBody(toks, name, params) ==
    IF ~params.ok THEN params
    ELSE IF ~Check(toks, params.pos, Tok("RightParen"))
    THEN PErr(<<"Expected ')' after parameters">>, params.pos)
    ELSE IF ~Check(toks, params.pos + 1, Tok("LeftBrace"))
    THEN PErr(<<"Expected '{' after function declaration">>, params.pos + 1)
    ELSE FunctionDeclarationEnd(toks, name, params.node,
                                ParseBody(toks, params.pos + 2, <<>>))

ParseFunctionDeclaration(toks, pos) ==
    LET name == PeekToken(toks, pos + 1)
    IN  IF name.type # "Identifier"
        THEN PErr(<<"Expected function name after 'func' keyword">>, pos + 2)
        ELSE IF ~Check(toks, pos + 2, Tok("LeftParen"))
        THEN PErr(<<"Expected '(' after function name">>, pos + 2)
        ELSE FunctionDeclarationBody(toks, name.text,
                                     ParseParameters(toks, pos + 3))

\* parse_if_statement after its body loop, body the loop's result
IfStatementEnd(toks, condition, body) ==
    IF ~body.ok THEN body
    ELSE IF ~Check(toks, body.pos, Tok("RightBrace"))
    THEN PErr(<<"Expected '}' after if body">>, body.pos)
    ELSE POk(StmtIfStatement(condition, body.node), body.pos + 1)

\* parse_if_statement after parse_expression()?, condition its result
IfStatementBody(toks, condition) ==
    IF ~condition.ok THEN condition
    ELSE IF ~Check(toks, condition.pos, Tok("LeftBrace"))
    THEN PErr(<<"Expected '{' after if condition">>, condition.pos)
    ELSE IfStatementEnd(toks, condition.node,
                        ParseBody(toks, condition.pos + 1, <<>>))

ParseIfStatement(toks, pos) ==
    IfStatementBody(toks, ParseExpression(toks, pos + 1))

RECURSIVE ParseArgumentsLoop(_, _, _)

\* arguments.push(self.parse_expression()?), argument the result
ParseArgumentsPush(toks, acc, argument) ==
    IF ~argument.ok THEN argument
    ELSE IF Check(toks, argument.pos, Tok("RightParen"))
    THEN POk(Append(acc, argument.node), argument.pos)
    ELSE IF ~Check(toks, argument.pos, Tok("Comma"))
    THEN PErr(<<"Expected ',' between arguments">>, argument.pos)
    ELSE ParseArgumentsLoop(toks, argument.pos + 1,
                            Append(acc, argument.node))

\* the loop of parse_arguments, entered with the next token not ')'
ParseArgumentsLoop(toks, pos, acc) ==
    ParseArgumentsPush(toks, acc, ParseExpression(toks, pos))

ParseArguments(toks, pos) ==
    IF Check(toks, pos, Tok("RightParen"))
    THEN POk(<<>>, pos)
    ELSE ParseArgumentsLoop(toks, pos, <<>>)

\* the call arm after parse_arguments()?, arguments its result
FunctionCallEnd(toks, name, arguments) ==
    IF ~arguments.ok THEN arguments
    ELSE IF ~Check(toks, arguments.pos, Tok("RightParen"))
    THEN PErr(<<"Expected ')' after function arguments">>, arguments.pos)
    ELSE POk(ExprFunctionCall(name, arguments.node), arguments.pos + 1)

\* the typed-value arm after parse_expression()?, value its result
TypedValueEnd(toks, type_name, value) ==
    IF ~value.ok THEN value
    ELSE IF ~Check(toks, value.pos, Tok("RightBracket"))
    THEN PErr(<<"Expected ']' after type value">>, value.pos)
    ELSE POk(ExprTypedValue(type_name, value.node), value.pos + 1)

ParsePrimaryExpression(toks, pos) ==
    LET tok == PeekToken(toks, pos)
    IN  CASE tok.type = "StringLiteral" ->
               POk(ExprStringLiteral(tok.text), pos + 1)
          [] tok.type = "IntegerLiteral" ->
               POk(ExprIntegerLiteral(tok.value), pos + 1)
          [] tok.type = "Identifier" ->
               IF Check(toks, pos + 1, Tok("LeftParen"))
               THEN FunctionCallEnd(toks, tok.text,
                                    ParseArguments(toks, pos + 2))
               ELSE POk(ExprIdentifier(tok.text), pos + 1)
          [] tok.type \in {"TypeString", "TypeInteger"} ->
               IF ~Check(toks, pos + 1, Tok("LeftBracket"))
               THEN PErr(<<"Expected '[' after type name">>, pos + 1)
               ELSE TypedValueEnd(toks,
                        IF tok.type = "TypeString" THEN "String"
                                                   ELSE "Integer",
                        ParseExpression(toks, pos + 2))
          [] tok.type = "TypeTrue" -> POk(ExprIdentifier("True"), pos + 1)
          [] tok.type = "TypeFalse" -> POk(ExprIdentifier("False"), pos + 1)
          [] OTHER -> PErr(<<"Unexpected token: ", TokenDebug(tok)>>, pos)

\* the equality suffix of parse_expression
EqualitySuffix(toks, pos) ==
    IF Check(toks, pos, Tok("Equals")) THEN "is"
    ELSE IF Check(toks, pos, Tok("NotEquals")) THEN "is not"
    ELSE ""

\* the BinaryOperation of parse_expression, right the second primary's result
EqualityRight(left, operator, right) ==
    IF ~right.ok THEN right
    ELSE POk(ExprBinaryOperation(left, operator, right.node), right.pos)

\* ParseExpression taking equality suffixes for as long as one follows
RECURSIVE ParseEqualityChain(_, _)
ParseEqualityChain(toks, expr) ==
    IF ~expr.ok \/ EqualitySuffix(toks, expr.pos) = "" THEN expr
    ELSE ParseEqualityChain(toks,
             EqualityRight(expr.node, EqualitySuffix(toks, expr.pos),
                           ParsePrimaryExpression(toks, expr.pos + 1)))

ParseExpressionChained(toks, pos) ==
    ParseEqualityChain(toks, ParsePrimaryExpression(toks, pos))

\* parse_expression after the first parse_primary_expression()?, expr its
\* result
ParseEquality(toks, expr) ==
    IF ~expr.ok \/ EqualitySuffix(toks, expr.pos) = "" THEN expr
    ELSE EqualityRight(expr.node, EqualitySuffix(toks, expr.pos),
                       ParsePrimaryExpression(toks, expr.pos + 1))

ParseExpression(toks, pos) ==
    ParseEquality(toks, ParsePrimaryExpression(toks, pos))

\* Statement::Expression(self.parse_expression()?), expr the result
ExpressionStatement(expr) ==
    IF ~expr.ok THEN expr ELSE POk(StmtExpression(expr.node), expr.pos)

ParseStatement(toks, pos) ==
    LET tok == PeekToken(toks, pos)
    IN  CASE tok.type = "Func" -> ParseFunctionDeclaration(toks, pos)
          [] tok.type = "If" -> ParseIfStatement(toks, pos)
          [] tok.type = "Comment" -> POk(StmtComment(tok.text), pos + 1)
          [] OTHER -> ExpressionStatement(ParseExpression(toks, pos))

RECURSIVE ParseProgram(_, _, _)

\* statements.push(self.parse_statement()?), statement the result
ParseProgramPush(toks, acc, statement) ==
    IF ~statement.ok THEN statement
    ELSE ParseProgram(toks, statement.pos, Append(acc, statement.node))

\* the loop of parse
ParseProgram(toks, pos, acc) ==
    IF IsAtEnd(toks, pos) THEN POk(acc, pos)
    ELSE ParseProgramPush(toks, acc, ParseStatement(toks, pos))

\* Parser::new(tokens).parse(): node is Program.statements
Parse(toks) == ParseProgram(toks, 0, <<>>)

(***************************************************************************)
(* Scope chains.  Environment and TypeEnvironment are a HashMap and a      *)
(* boxed parent: a chain is the sequence of its maps, the root first and   *)
(* the current scope last.                                                 *)
(***************************************************************************)

EmptyMap == [k \in {} |-> 0]

MapInsert(m, k, v) == (k :> v) @@ m

\* extend(parent): a new empty scope whose parent is the given chain
ChainExtend(parent) == Append(parent, EmptyMap)

\* define: inserts or overwrites in the current scope only
ChainDefine(env, name, v) ==
    [env EXCEPT ![Len(env)] = MapInsert(@, name, v)]

\* get: the nearest scope that has the name, from the current scope to the
\* root; k is the scope looked at
RECURSIVE ChainLookup(_, _, _)
ChainLookup(env, name, k) ==
    IF k = 0 THEN [found |-> FALSE, value |-> 0]
    ELSE IF name \in DOMAIN env[k] THEN [found |-> TRUE, value |-> env[k][name]]
    ELSE ChainLookup(env, name, k - 1)

ChainGet(env, name) == ChainLookup(env, name, Len(env))

\* Environment::assign overwriting or inserting in the current scope,
\* whatever the chain holds
ChainAssignCurrent(env, name, v) ==
    [ok |-> TRUE, env |-> ChainDefine(env, name, v), err |-> <<>>]

\* assign from scope k on: overwrites in the nearest scope that has the
\* name, Err when the root does not have it either
RECURSIVE ChainAssignFrom(_, _, _, _)
ChainAssignFrom(env, name, v, k) ==
    IF k = 0
    THEN [ok |-> FALSE, env |-> env,
          err |-> <<"Undefined variable '", name, "'">>]
    ELSE IF name \in DOMAIN env[k]
    THEN [ok |-> TRUE, env |-> [env EXCEPT ![k] = MapInsert(@, name, v)],
          err |-> <<>>]
    ELSE ChainAssignFrom(env, name, v, k - 1)

ChainAssign(env, name, v) == ChainAssignFrom(env, name, v, Len(env))

(***************************************************************************)
(* Types (typechecker.rs, enum Type)                                       *)
(***************************************************************************)

TypeString == [kind |-> "String"]

TypeInteger == [kind |-> "Integer"]

TypeBoolean == [kind |-> "Boolean"]

TypeVoid == [kind |-> "Void"]

TypeUnknown == [kind |-> "Unknown"]

TypeFunction(parameters, return_type) ==
    [kind |-> "Function", parameters |-> parameters,
     return_type |-> return_type]

\* impl Display for Type
RECURSIVE TypeDisplay(_), TypeDisplayList(_, _)
TypeDisplay(t) ==
    IF t.kind = "Function"
    THEN "fn(" \o TypeDisplayList(t.parameters, 1) \o ") -> "
         \o TypeDisplay(t.return_type)
    ELSE t.kind

TypeDisplayList(ts, k) ==
    IF k > Len(ts) THEN ""
    ELSE (IF k > 1 THEN ", " ELSE "") \o TypeDisplay(ts[k])
         \o TypeDisplayList(ts, k + 1)

\* TypeEnvironment::new: the built-ins print and function
TypeEnvironmentNew ==
    <<MapInsert(MapInsert(EmptyMap, "print",
                          TypeFunction(<<TypeUnknown>>, TypeVoid)),
                "function", TypeFunction(<<TypeUnknown>>, TypeUnknown))>>

(***************************************************************************)
(* Type checker (typechecker.rs)                                           *)
(***************************************************************************)

\* ParseTypeName keeping an unrecognized name as a type of its own
ParseTypeNameNominal(name) ==
    CASE name = "String"  -> TypeString
      [] name = "Integer" -> TypeInteger
      [] name = "Boolean" -> TypeBoolean
      [] name = "Unknown" -> TypeUnknown
      [] OTHER            -> [kind |-> name]

ParseTypeName(name) ==
    CASE name = "String"  -> TypeString
      [] name = "Integer" -> TypeInteger
      [] name = "Boolean" -> TypeBoolean
      [] name = "Unknown" -> TypeUnknown
      [] OTHER            -> TypeUnknown

\* TypesCompatible letting every pair of types through
TypesCompatibleAny(actual, expected) == TRUE

TypesCompatible(actual, expected) ==
    IF expected = TypeUnknown \/ actual = TypeUnknown THEN TRUE
    ELSE actual = expected

\* Result<Type, String>, with the checker's environment after the call
TOk(ty, env) == [ok |-> TRUE, ty |-> ty, env |-> env, err |-> <<>>]

TErr(msg, env) == [ok |-> FALSE, ty |-> TypeVoid, env |-> env, err |-> msg]

TypeMismatch(expected, actual) ==
    <<"Type mismatch: expected ", TypeDisplay(expected), ", got ",
      TypeDisplay(actual)>>

RECURSIVE CheckStatement(_, _), CheckBody(_, _, _), CheckExpression(_, _),
          CheckPrintArguments(_, _, _), CheckArguments(_, _, _, _)

\* self.check_expression(arg)? in the loop of print, arg_type its result
CheckPrintArgument(env, arguments, k, arg_type) ==
    IF ~arg_type.ok THEN arg_type
    ELSE CheckPrintArguments(env, arguments, k + 1)

\* for arg in arguments { self.check_expression(arg)?; } of print
CheckPrintArguments(env, arguments, k) ==
    IF k > Len(arguments) THEN TOk(TypeVoid, env)
    ELSE CheckPrintArgument(env, arguments, k,
                            CheckExpression(env, arguments[k]))

\* the function arm of check_expression for 'function': its first argument
CheckFunctionStub(env, arguments) ==
    IF arguments # <<>> THEN CheckExpression(env, arguments[1])
    ELSE TOk(TypeUnknown, env)

\* the body of the argument loop, arg_type the result of check_expression(arg)
CheckArgument(env, arguments, parameters, k, arg_type) ==
    IF ~arg_type.ok THEN arg_type
    ELSE IF ~TypesCompatible(arg_type.ty, parameters[k])
    THEN TErr(TypeMismatch(parameters[k], arg_type.ty), env)
    ELSE CheckArguments(env, arguments, parameters, k + 1)

\* for (arg, param_type) in arguments.iter().zip(parameters.iter())
CheckArguments(env, arguments, parameters, k) ==
    IF k > Len(arguments) \/ k > Len(parameters) THEN TOk(TypeVoid, env)
    ELSE CheckArgument(env, arguments, parameters, k,
                       CheckExpression(env, arguments[k]))

\* Ok(*return_type) once the argument loop is through, checked its result
CheckCallEnd(env, return_type, checked_arguments) ==
    IF ~checked_arguments.ok THEN checked_arguments
    ELSE TOk(return_type, env)

\* the arm of check_expression for a call of a function other than print
\* and function
CheckCall(env, name, func_type, arguments) ==
    IF func_type.kind # "Function"
    THEN TErr(<<"'", name, "' is not a function">>, env)
    ELSE IF Len(arguments) # Len(func_type.parameters)
    THEN TErr(<<"Function '", name, "' expects ",
                IntToString(Len(func_type.parameters)), " arguments, got ",
                IntToString(Len(arguments))>>, env)
    ELSE CheckCallEnd(env, func_type.return_type,
             CheckArguments(env, arguments, func_type.parameters, 1))

\* the typed-value arm after check_expression(value)?, value_type its result
CheckTypedValueEnd(env, expected_type, value_type) ==
    IF ~value_type.ok THEN value_type
    ELSE IF ~TypesCompatible(value_type.ty, expected_type)
    THEN TErr(TypeMismatch(expected_type, value_type.ty), env)
    ELSE TOk(expected_type, env)

CheckTypedValue(env, type_name, value) ==
    IF value.kind = "Identifier" THEN TOk(ParseTypeName(type_name), env)
    ELSE CheckTypedValueEnd(env, ParseTypeName(type_name),
                            CheckExpression(env, value))

\* the operator match of the binary arm, right_type the right operand's result
CheckBinaryEnd(env, operator, right_type) ==
    IF ~right_type.ok THEN right_type
    ELSE IF operator \in {"is", "is not"} THEN TOk(TypeBoolean, env)
    ELSE TErr(<<"Unknown operator: ", operator>>, env)

\* the binary arm after check_expression(left)?, left_type its result
CheckBinaryRight(env, operator, right, left_type) ==
    IF ~left_type.ok THEN left_type
    ELSE CheckBinaryEnd(env, operator, CheckExpression(env, right))

\* the call arm, func_type the result of environment.get(name)
CheckFunctionCall(env, name, arguments, func_type) ==
    IF ~func_type.found
    THEN TErr(<<"Undefined function '", name, "'">>, env)
    ELSE IF name = "print" THEN CheckPrintArguments(env, arguments, 1)
    ELSE IF name = "function" THEN CheckFunctionStub(env, arguments)
    ELSE CheckCall(env, name, func_type.value, arguments)

\* the identifier arm, ty the result of environment.get(name)
CheckIdentifier(env, name, ty) ==
    IF ty.found THEN TOk(ty.value, env)
    ELSE TErr(<<"Undefined variable '", name, "'">>, env)

CheckExpression(env, expr) ==
    CASE expr.kind = "StringLiteral" -> TOk(TypeString, env)
      [] expr.kind = "IntegerLiteral" -> TOk(TypeInteger, env)
      [] expr.kind = "Identifier" ->
           CheckIdentifier(env, expr.name, ChainGet(env, expr.name))
      [] expr.kind = "FunctionCall" ->
           CheckFunctionCall(env, expr.name, expr.arguments,
                             ChainGet(env, expr.name))
      [] expr.kind = "TypedValue" ->
           CheckTypedValue(env, expr.type_name, expr.value)
      [] expr.kind = "BinaryOperation" ->
           CheckBinaryRight(env, expr.operator, expr.right,
                            CheckExpression(env, expr.left))

\* self.check_statement(stmt)? in a body loop, checked_stmt its result
CheckBodyNext(body, k, checked_stmt) ==
    IF ~checked_stmt.ok THEN checked_stmt
    ELSE CheckBody(checked_stmt.env, body, k + 1)

\* for stmt in body { self.check_statement(stmt)?; }
CheckBody(env, body, k) ==
    IF k > Len(body) THEN TOk(TypeVoid, env)
    ELSE CheckBodyNext(body, k, CheckStatement(env, body[k]))

\* param_types of a declaration
ParamTypes(parameters) ==
    [k \in 1..Len(parameters) |-> ParseTypeName(parameters[k].type_name)]

\* the child scope of a declaration: extend, then define each parameter
RECURSIVE DefineParameters(_, _, _, _)
DefineParameters(env, parameters, values, k) ==
    IF k > Len(parameters) \/ k > Len(values) THEN env
    ELSE DefineParameters(ChainDefine(env, parameters[k].name, values[k]),
                          parameters, values, k + 1)

\* RestoreEnvironment leaving the scope of the body in place
RestoreEnvironmentKeep(prev_env, body_env) == body_env

\* the environment a declaration leaves once its body has been checked
RestoreEnvironment(prev_env, body_env) == prev_env

\* the declaration arm after its body loop, checked_body the loop's result
CheckFunctionDeclarationEnd(prev_env, checked_body) ==
    IF ~checked_body.ok THEN checked_body
    ELSE TOk(TypeVoid, RestoreEnvironment(prev_env, checked_body.env))

\* the declaration arm from the extended scope on, prev_env the environment
\* with the function defined
CheckFunctionDeclarationBody(prev_env, parameters, body) ==
    CheckFunctionDeclarationEnd(prev_env,
        CheckBody(DefineParameters(ChainExtend(prev_env), parameters,
                                   ParamTypes(parameters), 1),
                  body, 1))

CheckFunctionDeclaration(env, name, parameters, body) ==
    CheckFunctionDeclarationBody(
        ChainDefine(env, name, TypeFunction(ParamTypes(parameters), TypeVoid)),
        parameters, body)

\* the if arm after its body loop, checked_body the loop's result
CheckIfStatementEnd(checked_body) ==
    IF ~checked_body.ok THEN checked_body
    ELSE TOk(TypeVoid, checked_body.env)

\* the if arm after check_expression(condition)?, cond_type its result
CheckIfStatementBody(env, body, cond_type) ==
    IF ~cond_type.ok THEN cond_type
    ELSE IF cond_type.ty # TypeBoolean /\ cond_type.ty # TypeUnknown
    THEN TErr(<<"If condition must be a boolean, got ",
                TypeDisplay(cond_type.ty)>>, env)
    ELSE CheckIfStatementEnd(CheckBody(env, body, 1))

CheckIfStatement(env, condition, body) ==
    CheckIfStatementBody(env, body, CheckExpression(env, condition))

CheckStatement(env, stmt) ==
    CASE stmt.kind = "Expression" -> CheckExpression(env, stmt.expr)
      [] stmt.kind = "FunctionDeclaration" ->
           CheckFunctionDeclaration(env, stmt.name, stmt.parameters,
                                    stmt.body)
      [] stmt.kind = "IfStatement" ->
           CheckIfStatement(env, stmt.condition, stmt.body)
      [] stmt.kind = "Comment" -> TOk(TypeVoid, env)

(***************************************************************************)
(* Runtime values (interpreter.rs, enum Value)                             *)
(***************************************************************************)

ValueString(s) == [kind |-> "String", s |-> s]

ValueInteger(i) == [kind |-> "Integer", i |-> i]

ValueBoolean(b) == [kind |-> "Boolean", b |-> b]

ValueNull == [kind |-> "Null"]

ValueFunction(name, parameters, body) ==
    [kind |-> "Function", name |-> name, parameters |-> parameters,
     body |-> body]

\* impl Display for Value
ValueDisplay(v) ==
    CASE v.kind = "String" -> v.s
      [] v.kind = "Integer" -> IntToString(v.i)
      [] v.kind = "Boolean" -> IF v.b THEN "true" ELSE "false"
      [] v.kind = "Null" -> "null"
      [] v.kind = "Function" -> "<function " \o v.name \o ">"

\* {:?} of a Value, its variant and payload (a function's fields left out)
ValueDebug(v) ==
    CASE v.kind = "String" -> "String(\"" \o EscapeDebug(v.s) \o "\")"
      [] v.kind = "Integer" -> "Integer(" \o IntToString(v.i) \o ")"
      [] v.kind = "Boolean" ->
           "Boolean(" \o (IF v.b THEN "true" ELSE "false") \o ")"
      [] v.kind = "Null" -> "Null"
      [] v.kind = "Function" -> "Function { name: \"" \o v.name \o "\", .. }"

\* Environment::new: the built-in print
EnvironmentNew == <<MapInsert(EmptyMap, "print",
                              ValueFunction("print", <<>>, <<>>))>>

(***************************************************************************)
(* Interpreter (interpreter.rs).  A result carries the interpreter's       *)
(* environment after the call and the lines println! wrote during it.      *)
(* depth counts the user-function calls in progress: the host stack is     *)
(* finite, the run is abandoned at MaxCallDepth.                           *)
(***************************************************************************)

MaxCallDepth == 3

StackOverflow == <<"stack overflow">>

VOk(value, env, out) ==
    [ok |-> TRUE, value |-> value, env |-> env, out |-> out, err |-> <<>>]

VErr(msg, env, out) ==
    [ok |-> FALSE, value |-> ValueNull, env |-> env, out |-> out,
     err |-> msg]

IsTruthy(v) ==
    CASE v.kind = "Boolean" -> v.b
      [] v.kind = "Null" -> FALSE
      [] v.kind = "Integer" -> v.i # 0
      [] v.kind = "String" -> v.s # ""
      [] v.kind = "Function" -> TRUE

\* values_equal comparing the values as a whole, function values included
ValuesEqualStructural(left, right) == left = right

ValuesEqual(left, right) ==
    CASE left.kind = "String" /\ right.kind = "String" -> left.s = right.s
      [] left.kind = "Integer" /\ right.kind = "Integer" -> left.i = right.i
      [] left.kind = "Boolean" /\ right.kind = "Boolean" -> left.b = right.b
      [] left.kind = "Null" /\ right.kind = "Null" -> TRUE
      [] OTHER -> FALSE

\* ident.parse::<i64>() of the text of an Identifier expression: the text
\* starts with a letter (read_identifier is entered on an alphabetic
\* character, the 'i' arm starts it with "i"; True and False come from the
\* parser), and an i64 literal starts with a sign or a digit
ParseI64Identifier(ident) == [ok |-> FALSE, value |-> 0]

\* the lines a print call writes: one per argument value
RECURSIVE PrintLines(_)
PrintLines(values) ==
    IF values = <<>> THEN <<>>
    ELSE <<ValueDisplay(Head(values))>> \o PrintLines(Tail(values))

RECURSIVE ExecuteStatement(_, _, _), ExecuteBody(_, _, _, _, _, _),
          EvaluateExpression(_, _, _), EvaluateArguments(_, _, _, _, _, _)

\* arg_values.push(self.evaluate_expression(arg)?), value the result
EvaluateArgumentsPush(arguments, k, acc, out, depth, value) ==
    IF ~value.ok THEN VErr(value.err, value.env, out \o value.out)
    ELSE EvaluateArguments(value.env, arguments, k + 1,
                           Append(acc, value.value), out \o value.out, depth)

\* for arg in arguments { arg_values.push(self.evaluate_expression(arg)?) }
\* value is the vector of the argument values
EvaluateArguments(env, arguments, k, acc, out, depth) ==
    IF k > Len(arguments) THEN VOk(acc, env, out)
    ELSE EvaluateArgumentsPush(arguments, k, acc, out, depth,
             EvaluateExpression(env, arguments[k], depth))

\* result = self.execute_statement(stmt)?, executed the result
ExecuteBodyNext(body, k, out, depth, executed) ==
    IF ~executed.ok THEN VErr(executed.err, executed.env, out \o executed.out)
    ELSE ExecuteBody(executed.env, body, k + 1, executed.value,
                     out \o executed.out, depth)

\* for stmt in body { result = self.execute_statement(stmt)?; }
ExecuteBody(env, body, k, result, out, depth) ==
    IF k > Len(body) THEN VOk(result, env, out)
    ELSE ExecuteBodyNext(body, k, out, depth,
                         ExecuteStatement(env, body[k], depth))

\* the println! loop of print, arg_values the result of the argument loop
EvaluatePrintEnd(arg_values) ==
    IF ~arg_values.ok THEN arg_values
    ELSE VOk(ValueNull, arg_values.env,
             arg_values.out \o PrintLines(arg_values.value))

\* print writing each argument as soon as it is evaluated, value the
\* result of evaluate_expression(arg)
RECURSIVE EvaluatePrintEachLoop(_, _, _, _, _)
EvaluatePrintEachPush(arguments, k, out, depth, value) ==
    IF ~value.ok THEN VErr(value.err, value.env, out \o value.out)
    ELSE EvaluatePrintEachLoop(value.env, arguments, k + 1,
             out \o value.out \o <<ValueDisplay(value.value)>>, depth)

EvaluatePrintEachLoop(env, arguments, k, out, depth) ==
    IF k > Len(arguments) THEN VOk(ValueNull, env, out)
    ELSE EvaluatePrintEachPush(arguments, k, out, depth,
             EvaluateExpression(env, arguments[k], depth))

EvaluatePrintEach(env, arguments, depth) ==
    EvaluatePrintEachLoop(env, arguments, 1, <<>>, depth)

\* the built-in print: all arguments are evaluated, then each is written
EvaluatePrint(env, arguments, depth) ==
    EvaluatePrintEnd(EvaluateArguments(env, arguments, 1, <<>>, <<>>, depth))

\* RestoreCaller leaving the callee's scope chain in place
RestoreCallerKeep(previous_env, body_env) == body_env

\* the environment a call leaves once the body has run
RestoreCaller(previous_env, body_env) == previous_env

\* a call after its body loop, result the loop's result
EvaluateCallEnd(previous_env, result) ==
    IF ~result.ok THEN result
    ELSE VOk(result.value, RestoreCaller(previous_env, result.env),
             result.out)

\* a call whose scope is a child of the root scope alone, not of the
\* caller's scope
EvaluateCallBodyGlobal(function, depth, arg_values) ==
    IF ~arg_values.ok THEN arg_values
    ELSE IF depth >= MaxCallDepth
    THEN VErr(StackOverflow, arg_values.env, arg_values.out)
    ELSE EvaluateCallEnd(arg_values.env,
             ExecuteBody(DefineParameters(
                             ChainExtend(<<Head(arg_values.env)>>),
                             function.parameters, arg_values.value, 1),
                         function.body, 1, ValueNull, arg_values.out,
                         depth + 1))

\* a call after its argument loop, arg_values the loop's result
EvaluateCallBody(function, depth, arg_values) ==
    IF ~arg_values.ok THEN arg_values
    ELSE IF depth >= MaxCallDepth
    THEN VErr(StackOverflow, arg_values.env, arg_values.out)
    ELSE EvaluateCallEnd(arg_values.env,
             ExecuteBody(DefineParameters(ChainExtend(arg_values.env),
                                          function.parameters,
                                          arg_values.value, 1),
                         function.body, 1, ValueNull, arg_values.out,
                         depth + 1))

\* a call counting its arguments after evaluating them, arg_values the
\* result of the argument loop
EvaluateCallCounted(function, arguments, depth, arg_values) ==
    IF ~arg_values.ok THEN arg_values
    ELSE IF Len(arguments) # Len(function.parameters)
    THEN VErr(<<"Expected ", IntToString(Len(function.parameters)),
                " arguments but got ", IntToString(Len(arguments))>>,
              arg_values.env, arg_values.out)
    ELSE EvaluateCallBody(function, depth, arg_values)

EvaluateCallArgumentsFirst(env, function, arguments, depth) ==
    EvaluateCallCounted(function, arguments, depth,
        EvaluateArguments(env, arguments, 1, <<>>, <<>>, depth))

\* a call of a user-defined function
EvaluateCall(env, function, arguments, depth) ==
    IF Len(arguments) # Len(function.parameters)
    THEN VErr(<<"Expected ", IntToString(Len(function.parameters)),
                " arguments but got ", IntToString(Len(arguments))>>,
              env, <<>>)
    ELSE EvaluateCallBody(function, depth,
             EvaluateArguments(env, arguments, 1, <<>>, <<>>, depth))

\* the type match of the typed-value arm, inner_value the result of
\* evaluate_expression(value)
EvaluateTypedValueEnd(type_name, inner_value) ==
    IF ~inner_value.ok THEN inner_value
    ELSE IF \/ type_name = "String" /\ inner_value.value.kind = "String"
            \/ type_name = "Integer" /\ inner_value.value.kind = "Integer"
    THEN inner_value
    ELSE VErr(<<"Type mismatch: expected ", type_name, ", got ",
                ValueDebug(inner_value.value)>>,
              inner_value.env, inner_value.out)

\* Integer[ident], parsed the result of ident.parse::<i64>()
EvaluateIntegerTag(env, ident, parsed_ident) ==
    IF parsed_ident.ok THEN VOk(ValueInteger(parsed_ident.value), env, <<>>)
    ELSE VErr(<<"Cannot convert '", ident, "' to Integer">>, env, <<>>)

\* the typed-value arm without its special case: the identifier is evaluated
\* like any other inner expression
EvaluateTypedValueLookup(env, type_name, value, depth) ==
    EvaluateTypedValueEnd(type_name, EvaluateExpression(env, value, depth))

EvaluateTypedValue(env, type_name, value, depth) ==
    IF value.kind = "Identifier" /\ type_name = "String"
    THEN VOk(ValueString(value.name), env, <<>>)
    ELSE IF value.kind = "Identifier" /\ type_name = "Integer"
    THEN EvaluateIntegerTag(env, value.name, ParseI64Identifier(value.name))
    ELSE EvaluateTypedValueEnd(type_name,
                               EvaluateExpression(env, value, depth))

\* the operator match of the binary arm, right_value the right operand's
\* result
EvaluateBinaryEnd(operator, left_value, right_value) ==
    IF ~right_value.ok
    THEN VErr(right_value.err, right_value.env,
              left_value.out \o right_value.out)
    ELSE IF operator = "is"
    THEN VOk(ValueBoolean(ValuesEqual(left_value.value, right_value.value)),
             right_value.env, left_value.out \o right_value.out)
    ELSE IF operator = "is not"
    THEN VOk(ValueBoolean(~ValuesEqual(left_value.value, right_value.value)),
             right_value.env, left_value.out \o right_value.out)
    ELSE VErr(<<"Unknown operator: ", operator>>, right_value.env,
              left_value.out \o right_value.out)

\* the binary arm after evaluate_expression(left)?, left_value its result
EvaluateBinaryRight(operator, right, depth, left_value) ==
    IF ~left_value.ok THEN left_value
    ELSE EvaluateBinaryEnd(operator, left_value,
             EvaluateExpression(left_value.env, right, depth))

EvaluateBinaryOperation(env, left, operator, right, depth) ==
    EvaluateBinaryRight(operator, right, depth,
                        EvaluateExpression(env, left, depth))

\* the identifier arm, value the result of environment.get(name)
EvaluateIdentifier(env, name, value) ==
    IF value.found THEN VOk(value.value, env, <<>>)
    ELSE VErr(<<"Undefined variable '", name, "'">>, env, <<>>)

\* the call arm taking for the built-in only the value Environment::new
\* binds, and calling every declared function
EvaluateFunctionCallBuiltin(env, name, arguments, depth, function) ==
    IF ~function.found
    THEN VErr(<<"Undefined function '", name, "'">>, env, <<>>)
    ELSE IF function.value.kind # "Function"
    THEN VErr(<<"'", name, "' is not a function">>, env, <<>>)
    ELSE IF function.value = ValueFunction("print", <<>>, <<>>)
    THEN EvaluatePrint(env, arguments, depth)
    ELSE EvaluateCall(env, function.value, arguments, depth)

\* the call arm, function the result of environment.get(name)
EvaluateFunctionCall(env, name, arguments, depth, function) ==
    IF ~function.found
    THEN VErr(<<"Undefined function '", name, "'">>, env, <<>>)
    ELSE IF function.value.kind # "Function"
    THEN VErr(<<"'", name, "' is not a function">>, env, <<>>)
    ELSE IF function.value.name = "print"
    THEN EvaluatePrint(env, arguments, depth)
    ELSE EvaluateCall(env, function.value, arguments, depth)

EvaluateExpression(env, expr, depth) ==
    CASE expr.kind = "StringLiteral" -> VOk(ValueString(expr.s), env, <<>>)
      [] expr.kind = "IntegerLiteral" -> VOk(ValueInteger(expr.i), env, <<>>)
      [] expr.kind = "Identifier" ->
           EvaluateIdentifier(env, expr.name, ChainGet(env, expr.name))
      [] expr.kind = "FunctionCall" ->
           EvaluateFunctionCall(env, expr.name, expr.arguments, depth,
                                ChainGet(env, expr.name))
      [] expr.kind = "TypedValue" ->
           EvaluateTypedValue(env, expr.type_name, expr.value, depth)
      [] expr.kind = "BinaryOperation" ->
           EvaluateBinaryOperation(env, expr.left, expr.operator, expr.right,
                                   depth)

\* the if arm after evaluate_expression(condition)?, condition_value its
\* result
ExecuteIfBody(body, depth, condition_value) ==
    IF ~condition_value.ok THEN condition_value
    ELSE IF IsTruthy(condition_value.value)
    THEN ExecuteBody(condition_value.env, body, 1, ValueNull,
                     condition_value.out, depth)
    ELSE VOk(ValueNull, condition_value.env, condition_value.out)

ExecuteIfStatement(env, condition, body, depth) ==
    ExecuteIfBody(body, depth, EvaluateExpression(env, condition, depth))

ExecuteStatement(env, stmt, depth) ==
    CASE stmt.kind = "Expression" -> EvaluateExpression(env, stmt.expr, depth)
      [] stmt.kind = "FunctionDeclaration" ->
           VOk(ValueNull,
               ChainDefine(env, stmt.name,
                           ValueFunction(stmt.name, stmt.parameters,
                                         stmt.body)),
               <<>>)
      [] stmt.kind = "IfStatement" ->
           ExecuteIfStatement(env, stmt.condition, stmt.body, depth)
      [] stmt.kind = "Comment" -> VOk(ValueNull, env, <<>>)

(***************************************************************************)
(* The driver (main.rs): tokenize, parse, check, interpret.  pc is the     *)
(* stage main is at.  parsed, checked and ran hold what parse,             *)
(* check_program and interpret returned; type_checker and interpreter are  *)
(* the objects main creates on the way (live once created).                *)
(***************************************************************************)

Pending == [state |-> "pending", program |-> <<>>, err |-> <<>>]

Succeeded(program) == [state |-> "ok", program |-> program, err |-> <<>>]

Failed(msg) == [state |-> "err", program |-> <<>>, err |-> msg]

NotCreated == [live |-> FALSE, environment |-> <<>>]

Created(env) == [live |-> TRUE, environment |-> env]

\* match parser.parse(): Ok goes on to the checker, Err ends main
AfterParse(ok) == IF ok THEN "check" ELSE "done"

\* AfterCheck going on to the interpreter whatever check_program returned
AfterCheckAlways(ok) == "interpret"

\* match type_checker.check_program(&ast): Ok goes on to the interpreter
AfterCheck(ok) == IF ok THEN "interpret" ELSE "done"

\* one turn of the loop of tokenize
NextTokenStep ==
    /\ pc = "tokenize"
    /\ LET r == NextToken(lexer)
       IN  /\ lexer' = r.lexer
           /\ tokens' = Append(tokens, r.token)
           /\ pc' = IF r.token = EOF THEN "parse" ELSE "tokenize"
    /\ UNCHANGED <<source, parsed, type_checker, check_pos, checked,
                   interpreter, run_pos, output, ran>>

\* Parser::new(tokens).parse(), and TypeChecker::new() when it succeeds
ParseStep ==
    /\ pc = "parse"
    /\ LET r == Parse(tokens)
       IN  /\ parsed' = IF r.ok THEN Succeeded(r.node) ELSE Failed(r.err)
           /\ type_checker' = IF AfterParse(r.ok) = "check"
                              THEN Created(TypeEnvironmentNew)
                              ELSE type_checker
           /\ pc' = AfterParse(r.ok)
    /\ UNCHANGED <<source, lexer, tokens, check_pos, checked, interpreter,
                   run_pos, output, ran>>

\* one turn of the loop of check_program, or its Ok(()) after the last
\* statement, and Interpreter::new() when main goes on
CheckStep ==
    /\ pc = "check"
    /\ LET last == check_pos > Len(parsed.program)
           r    == CheckStatement(type_checker.environment,
                                  parsed.program[check_pos])
           ok   == last \/ r.ok
           to   == IF last \/ ~r.ok THEN AfterCheck(ok) ELSE "check"
       IN  /\ type_checker' = IF last THEN type_checker ELSE Created(r.env)
           /\ check_pos' = IF last \/ ~r.ok THEN check_pos ELSE check_pos + 1
           /\ checked' = IF last THEN Succeeded(<<>>)
                         ELSE IF ~r.ok THEN Failed(r.err)
                         ELSE checked
           /\ interpreter' = IF to = "interpret" THEN Created(EnvironmentNew)
                             ELSE interpreter
           /\ pc' = to
    /\ UNCHANGED <<source, lexer, tokens, parsed, run_pos, output, ran>>

\* one turn of the loop of interpret, or its Ok(()) after the last statement
InterpretStep ==
    /\ pc = "interpret"
    /\ LET last == run_pos > Len(parsed.program)
           r    == ExecuteStatement(interpreter.environment,
                                    parsed.program[run_pos], 0)
       IN  /\ interpreter' = IF last THEN interpreter ELSE Created(r.env)
           /\ output' = IF last THEN output ELSE output \o r.out
           /\ run_pos' = IF last \/ ~r.ok THEN run_pos ELSE run_pos + 1
           /\ ran' = IF last THEN Succeeded(<<>>)
                     ELSE IF ~r.ok THEN Failed(r.err)
                     ELSE ran
           /\ pc' = IF last \/ ~r.ok THEN "done" ELSE "interpret"
    /\ UNCHANGED <<source, lexer, tokens, parsed, type_checker, check_pos,
                   checked>>

\* main at Lexer::new(input)
Start(text) ==
    /\ source = text
    /\ lexer = LexerNew(text)
    /\ tokens = <<>>
    /\ pc = "tokenize"
    /\ parsed = Pending
    /\ type_checker = NotCreated
    /\ check_pos = 1
    /\ checked = Pending
    /\ interpreter = NotCreated
    /\ run_pos = 1
    /\ output = <<>>
    /\ ran = Pending

\* main once tokenize has returned
Tokenized(text) ==
    /\ source = text
    /\ lexer = [input |-> <<>>, current_char |-> None]
    /\ tokens = Tokenize(text)
    /\ pc = "parse"
    /\ parsed = Pending
    /\ type_checker = NotCreated
    /\ check_pos = 1
    /\ checked = Pending
    /\ interpreter = NotCreated
    /\ run_pos = 1
    /\ output = <<>>
    /\ ran = Pending

(***************************************************************************)
(* Source texts                                                            *)
(***************************************************************************)

\* the texts made of at most n pieces
RECURSIVE Concats(_, _)
Concats(pieces, n) ==
    IF n = 0 THEN {<<>>}
    ELSE LET shorter == Concats(pieces, n - 1)
         IN  shorter \cup {s \o p : s \in shorter, p \in pieces}

MaxPieces == 3

LexPieces ==
    {<<"i", "s">>,
     <<" ">>,
     <<"n">>,
     <<"n", "o">>,
     <<"n", "o", "t">>,
     <<"a">>,
     <<"i">>,
     <<"S", "t", "r", "i", "n", "g", "(">>,
     <<"I", "n", "t", "e", "g", "e", "r", "(">>,
     <<")">>,
     <<"1">>,
     <<"-">>,
     <<"/">>,
     <<"\n">>}

LexSources == Concats(LexPieces, MaxPieces)

(***************************************************************************)
(* SpecLex: the lexer on every text of LexSources                          *)
(***************************************************************************)

InitLex == \E text \in LexSources : Start(text)

NextLex == NextTokenStep

SpecLex == InitLex /\ [][NextLex]_vars

(***************************************************************************)
(* Vocabulary of the lexer's properties                                    *)
(***************************************************************************)

\* the text the lexer has not consumed
Rest(l) == IF l.current_char = None THEN <<>> ELSE <<l.current_char>> \o l.input

Drop(cs, n) == IF n >= Len(cs) THEN <<>> ELSE SubSeq(cs, n + 1, Len(cs))

StartsWith(cs, prefix) ==
    Len(cs) >= Len(prefix) /\ SubSeq(cs, 1, Len(prefix)) = prefix

RECURSIVE DropBlanks(_)
DropBlanks(cs) ==
    IF cs # <<>> /\ Head(cs) \in {" ", "\t", "\n", "\r"}
    THEN DropBlanks(Tail(cs))
    ELSE cs

\* the text before the first ')' (all of it when there is none)
RECURSIVE UpToParen(_)
UpToParen(cs) ==
    IF cs = <<>> \/ Head(cs) = ")" THEN <<>>
    ELSE <<Head(cs)>> \o UpToParen(Tail(cs))

LastToken == tokens[Len(tokens)]

\* the text at which the next token starts
TokenStart == DropBlanks(Rest(lexer))

(***************************************************************************)
(* C2: tokenize never fails and ends: every call of next_token returns EOF *)
(* or consumes at least one character, so at most one token per character  *)
(* is produced; tokenize returns exactly when EOF has been pushed, EOF is   *)
(* the last token and occurs nowhere before.                                *)
(***************************************************************************)
C2_TokenizeTotal ==
    /\ pc = "tokenize" =>
         LET r == NextToken(lexer)
         IN  r.token = EOF \/ Remaining(r.lexer) < Remaining(lexer)
    /\ Len(tokens) + Remaining(lexer) <= Len(source) + 1
    /\ pc # "tokenize" => tokens # <<>> /\ LastToken = EOF
    /\ \A k \in 1..(Len(tokens) - 1) : tokens[k] # EOF
    /\ pc = "tokenize" => \A k \in 1..Len(tokens) : tokens[k] # EOF

\* tokenize has returned on a text with an unrecognized character
C2_Witness ==
    /\ pc = "parse"
    /\ source = <<"a", "/", "a">>
    /\ tokens = <<TokIdentifier("a"), TokIdentifier("a"), EOF>>

(***************************************************************************)
(* C3: when the next token starts with String( or Integer( the lexer emits *)
(* one literal token for the construct up to the next ')' or the end of    *)
(* input, and goes on after it: StringLiteral of the raw body, or          *)
(* IntegerLiteral of the body's value, 0 when the body is no i64.          *)
(***************************************************************************)
C3_TypeValueLiteral ==
    [][pc = "tokenize" =>
         LET isS   == StartsWith(TokenStart,
                                 <<"S", "t", "r", "i", "n", "g", "(">>)
             isI   == StartsWith(TokenStart,
                                 <<"I", "n", "t", "e", "g", "e", "r", "(">>)
             after == Drop(TokenStart, IF isS THEN 7 ELSE 8)
             body  == UpToParen(after)
             n     == ParseI64(body)
         IN  (isS \/ isI) =>
               /\ tokens' = Append(tokens,
                      IF isS THEN TokStringLiteral(Join(body))
                      ELSE TokIntegerLiteral(IF n.ok THEN n.value ELSE 0))
               /\ Rest(lexer') = Drop(after, Len(body) + 1)]_vars

\* Integer(-1 has been lexed as the one token IntegerLiteral(-1)
C3_Witness ==
    /\ source = <<"I", "n", "t", "e", "g", "e", "r", "(", "-", "1">>
    /\ tokens = <<TokIntegerLiteral(0 - 1), EOF>>

(***************************************************************************)
(* C4: when the next token starts with the characters is, the lexer emits  *)
(* Equals, or NotEquals when one space and not follow, whatever comes      *)
(* next; is followed by identifier characters is lexed as Equals and the   *)
(* lexer goes on right after the s.                                        *)
(***************************************************************************)
C4_IsNotWordBounded ==
    [][pc = "tokenize" /\ StartsWith(TokenStart, <<"i", "s">>) =>
         LET isnot == StartsWith(TokenStart, <<"i", "s", " ", "n", "o", "t">>)
             next  == Drop(TokenStart, 2)
         IN  /\ tokens' = Append(tokens, IF isnot THEN Tok("NotEquals")
                                                  ELSE Tok("Equals"))
             /\ isnot => Rest(lexer') = Drop(TokenStart, 6)
             /\ next # <<>> /\ (IsAlphanumeric(next[1]) \/ next[1] = "_")
                  => Rest(lexer') = next]_vars

\* isa has been lexed as Equals and the identifier a
C4_Witness ==
    /\ source = <<"i", "s", "a">>
    /\ tokens = <<Tok("Equals"), TokIdentifier("a"), EOF>>

(***************************************************************************)
(* C5: when is is followed by a space and a text that is not not, the      *)
(* lexer emits Equals and goes on at the text after the space: no          *)
(* character of the following word is consumed.                            *)
(***************************************************************************)
C5_IsKeepsFollowingWord ==
    [][pc = "tokenize" /\ StartsWith(TokenStart, <<"i", "s", " ">>)
       /\ ~StartsWith(TokenStart, <<"i", "s", " ", "n", "o", "t">>) =>
         /\ tokens' = Append(tokens, Tok("Equals"))
         /\ DropBlanks(Rest(lexer')) = DropBlanks(Drop(TokenStart, 3))]_vars

(***************************************************************************)
(* SpecParse: the parser on the tokens of every text of ParseSources, the  *)
(* texts of at most MaxWords words with a space after each                 *)
(***************************************************************************)

MaxWords == 4

ParseWords ==
    {<<"a">>,
     <<"a", " ", "i", "s", " ", "n", "o", "t", " ", "a">>,
     <<"i", "s">>,
     <<"f", "(">>,
     <<")">>,
     <<"S", "t", "r", "i", "n", "g", "[">>,
     <<"]">>,
     <<"i", "f">>,
     <<"{", " ", "}">>}

ParseSources == Concats({w \o <<" ">> : w \in ParseWords}, MaxWords)

InitParse == \E text \in ParseSources : Tokenized(text)

NextParse == ParseStep

SpecParse == InitParse /\ [][NextParse]_vars

(***************************************************************************)
(* Vocabulary of the parser's properties                                   *)
(***************************************************************************)

\* no BinaryOperation of the tree has a BinaryOperation as an operand
RECURSIVE FlatEquality(_), FlatEqualityAll(_)
FlatEquality(node) ==
    CASE node.kind = "BinaryOperation" ->
           /\ node.left.kind # "BinaryOperation"
           /\ node.right.kind # "BinaryOperation"
           /\ FlatEquality(node.left)
           /\ FlatEquality(node.right)
      [] node.kind = "FunctionCall" -> FlatEqualityAll(node.arguments)
      [] node.kind = "TypedValue" -> FlatEquality(node.value)
      [] node.kind = "Expression" -> FlatEquality(node.expr)
      [] node.kind = "FunctionDeclaration" -> FlatEqualityAll(node.body)
      [] node.kind = "IfStatement" ->
           FlatEquality(node.condition) /\ FlatEqualityAll(node.body)
      [] OTHER -> TRUE

FlatEqualityAll(nodes) ==
    \A k \in 1..Len(nodes) : FlatEquality(nodes[k])

\* some node of the tree is a BinaryOperation
RECURSIVE HasEquality(_)
HasEquality(node) ==
    CASE node.kind = "BinaryOperation" -> TRUE
      [] node.kind = "FunctionCall" ->
           \E k \in 1..Len(node.arguments) : HasEquality(node.arguments[k])
      [] node.kind = "TypedValue" -> HasEquality(node.value)
      [] node.kind = "Expression" -> HasEquality(node.expr)
      [] node.kind = "FunctionDeclaration" ->
           \E k \in 1..Len(node.body) : HasEquality(node.body[k])
      [] node.kind = "IfStatement" ->
           \/ HasEquality(node.condition)
           \/ \E k \in 1..Len(node.body) : HasEquality(node.body[k])
      [] OTHER -> FALSE

\* a token that is a primary expression by itself
IsOperandToken(tok) ==
    tok.type \in {"Identifier", "StringLiteral", "IntegerLiteral",
                  "TypeTrue", "TypeFalse"}

IsEqualityToken(tok) == tok.type \in {"Equals", "NotEquals"}

\* the tokens hold  a is b is c  somewhere
HasEqualityChain(toks) ==
    \E k \in 1..(Len(toks) - 4) :
        /\ IsOperandToken(toks[k])
        /\ IsEqualityToken(toks[k + 1])
        /\ IsOperandToken(toks[k + 2])
        /\ IsEqualityToken(toks[k + 3])
        /\ IsOperandToken(toks[k + 4])

(***************************************************************************)
(* C6: an expression takes at most one equality suffix: no BinaryOperation *)
(* of a parsed program has a BinaryOperation as its left or right operand, *)
(* and parse returns an error for tokens that hold  a is b is c.           *)
(***************************************************************************)
C6_EqualityNotChainable ==
    /\ parsed.state = "ok" =>
         FlatEqualityAll(parsed.program) /\ ~HasEqualityChain(tokens)
    /\ pc # "parse" /\ HasEqualityChain(tokens) => parsed.state = "err"

\* a is not a is a inside a call has been refused
C6_Witness ==
    /\ HasEqualityChain(tokens)
    /\ tokens[1] = TokIdentifier("f")
    /\ parsed.state = "err"
    /\ parsed.err = <<"Expected ',' between arguments">>

(***************************************************************************)
(* SpecProgram: parser, checker and interpreter on the tokens of every     *)
(* program of at most MaxStatements statements of ProgramStatements, one   *)
(* statement a line.                                                       *)
(***************************************************************************)

\* input.chars().collect()
Chars(text) == [k \in 1..Len(text) |-> SubSeq(text, k, k)]

MaxStatements == 2

ProgramStatements ==
    {"func f(x: String) { }",
     "func f(x: Boolean) { }",
     "func f(x: Foo) { }",
     "func f(x: Unknown, y: Integer) { x }",
     "func g(y: Integer) { func f() { } if y is y { func h() { } } h() }",
     "func f() { print(String[a]) }",
     "f(String[a])",
     "f(Integer[1])",
     "f(String[a] is String[a])",
     "f(f)",
     "f()",
     "f(String[a], Integer[1])",
     "f(y)",
     "h()",
     "x",
     "print(f, y)",
     "print(String[a], f)",
     "function(String[a], y)",
     "function(y)",
     "String[y]",
     "if y { }",
     "if f is f { func h() { } }",
     "// note"}

ProgramSources ==
    Concats({Chars(statement) \o <<"\n">> : statement \in ProgramStatements},
            MaxStatements)

InitProgram == \E text \in ProgramSources : Tokenized(text)

NextProgram == ParseStep \/ CheckStep \/ InterpretStep

SpecProgram == InitProgram /\ [][NextProgram]_vars

(***************************************************************************)
(* Vocabulary of the checker properties.  A step of check_program is taken *)
(* from a state where CheckingStatement holds; CheckedStatement is the     *)
(* statement it checks.                                                    *)
(***************************************************************************)

CheckingStatement == pc = "check" /\ check_pos <= Len(parsed.program)

CheckedStatement == parsed.program[check_pos]

\* the step went through the statement / returned the statement's error
StatementPassed == pc' = "check" /\ check_pos' = check_pos + 1

StatementFailed == pc' = "done" /\ checked'.state = "err"

\* a statement that is a call of a function other than print and function
UserCall(stmt) ==
    /\ stmt.kind = "Expression"
    /\ stmt.expr.kind = "FunctionCall"
    /\ stmt.expr.name \notin {"print", "function"}

\* the function declarations that statements leave in the scope they are
\* checked in, in order: their own and those of the bodies of their ifs
RECURSIVE Declarations(_)
Declarations(stmts) ==
    IF stmts = <<>> THEN <<>>
    ELSE LET stmt == Head(stmts)
         IN  (CASE stmt.kind = "FunctionDeclaration" -> <<stmt>>
                [] stmt.kind = "IfStatement" -> Declarations(stmt.body)
                [] OTHER -> <<>>)
             \o Declarations(Tail(stmts))

\* the declarations of name ahead of top-level statement k
DeclarationsOf(name, k) ==
    SelectSeq(Declarations(SubSeq(parsed.program, 1, k - 1)),
              LAMBDA d : d.name = name)

\* the declaration a call of name at top-level statement k refers to
DeclarationOf(name, k) == DeclarationsOf(name, k)[Len(DeclarationsOf(name, k))]

\* the results of checking each argument on its own
ArgumentTypes(env, arguments) ==
    [k \in 1..Len(arguments) |-> CheckExpression(env, arguments[k])]

\* compatible: equal, or either side Unknown
Compatible(actual, expected) ==
    actual = expected \/ actual = TypeUnknown \/ expected = TypeUnknown

\* Checking a declaration gives every parameter whose type name is not in
\* known the type Unknown, and a call of the declared function whose
\* parameters are all of that kind, with as many arguments as parameters,
\* each checking on its own, passes.
OtherTypeNamesUnknown(known) ==
    CheckingStatement =>
      /\ CheckedStatement.kind = "FunctionDeclaration" /\ StatementPassed =>
           \A k \in 1..Len(CheckedStatement.parameters) :
              CheckedStatement.parameters[k].type_name \notin known =>
                ChainGet(type_checker'.environment,
                         CheckedStatement.name).value.parameters[k]
                  = TypeUnknown
      /\ /\ UserCall(CheckedStatement)
         /\ DeclarationsOf(CheckedStatement.expr.name, check_pos) # <<>>
         =>
           LET call == CheckedStatement.expr
               decl == DeclarationOf(call.name, check_pos)
               arg  == ArgumentTypes(type_checker.environment,
                                     call.arguments)
           IN  /\ Len(decl.parameters) = Len(call.arguments)
               /\ \A k \in 1..Len(decl.parameters) :
                     decl.parameters[k].type_name \notin known
               /\ \A k \in 1..Len(call.arguments) : arg[k].ok
               => StatementPassed

(***************************************************************************)
(* C7 as the claim states it: a function parameter declared with any type  *)
(* name other than String, Integer or Unknown is given type Unknown by the *)
(* checker, so a call passing an argument of any type for that parameter   *)
(* passes the argument type check.                                         *)
(***************************************************************************)
C7_OtherTypeNamesUnknown ==
    [][OtherTypeNamesUnknown({"String", "Integer", "Unknown"})]_vars

(***************************************************************************)
(* C7 amended: a function parameter declared with any type name other than *)
(* String, Integer, Boolean or Unknown is given type Unknown by the        *)
(* checker, so a call passing an argument of any type for that parameter   *)
(* passes the argument type check; a parameter declared Boolean is given   *)
(* type Boolean.                                                           *)
(***************************************************************************)
C7_UnrecognizedTypeNamesUnknown ==
    [][/\ OtherTypeNamesUnknown({"String", "Integer", "Boolean", "Unknown"})
       /\ /\ CheckingStatement
          /\ CheckedStatement.kind = "FunctionDeclaration"
          /\ StatementPassed
          => \A k \in 1..Len(CheckedStatement.parameters) :
                CheckedStatement.parameters[k].type_name = "Boolean" =>
                  ChainGet(type_checker'.environment,
                           CheckedStatement.name).value.parameters[k]
                    = TypeBoolean]_vars

\* func f(x: Foo) { } followed by f(Integer[1]) has been checked through
C7_Witness ==
    /\ Len(parsed.program) = 2
    /\ parsed.program[1].kind = "FunctionDeclaration"
    /\ parsed.program[1].parameters = <<Parameter("x", "Foo")>>
    /\ parsed.program[2] =
         StmtExpression(ExprFunctionCall("f",
             <<ExprTypedValue("Integer", ExprIntegerLiteral(1))>>))
    /\ pc = "check"
    /\ check_pos = 3
    /\ ChainGet(type_checker.environment, "f").value
         = TypeFunction(<<TypeUnknown>>, TypeVoid)

(***************************************************************************)
(* C8: for a call of a user-declared function (not print or function),     *)
(* check succeeds only if the number of arguments equals the number of     *)
(* declared parameters and each argument's type is compatible with the     *)
(* parameter's type (equal, or either side Unknown); the first argument    *)
(* that is not compatible fails the check with a message naming the        *)
(* expected and the actual type.                                           *)
(***************************************************************************)
C8_CallArityAndTypes ==
    [][/\ CheckingStatement
       /\ UserCall(CheckedStatement)
       /\ ChainGet(type_checker.environment, CheckedStatement.expr.name).found
       =>
         LET call == CheckedStatement.expr
             parameters ==
                 ChainGet(type_checker.environment, call.name).value.parameters
             arg  == ArgumentTypes(type_checker.environment, call.arguments)
             Fits(k) == arg[k].ok /\ Compatible(arg[k].ty, parameters[k])
         IN  /\ StatementPassed =>
                  /\ Len(call.arguments) = Len(parameters)
                  /\ \A k \in 1..Len(call.arguments) : Fits(k)
             /\ Len(call.arguments) # Len(parameters) => StatementFailed
             /\ \A k \in 1..Len(call.arguments) :
                   /\ Len(call.arguments) = Len(parameters)
                   /\ \A j \in 1..(k - 1) : Fits(j)
                   /\ arg[k].ok
                   /\ ~Compatible(arg[k].ty, parameters[k])
                   => /\ StatementFailed
                      /\ checked'.err =
                           <<"Type mismatch: expected ",
                             TypeDisplay(parameters[k]), ", got ",
                             TypeDisplay(arg[k].ty)>>]_vars

\* func f(x: String) { } followed by f(Integer[1]) has failed the check
C8_Witness ==
    /\ Len(parsed.program) = 2
    /\ parsed.program[1] =
         StmtFunctionDeclaration("f", <<Parameter("x", "String")>>, <<>>)
    /\ parsed.program[2] =
         StmtExpression(ExprFunctionCall("f",
             <<ExprTypedValue("Integer", ExprIntegerLiteral(1))>>))
    /\ pc = "done"
    /\ check_pos = 2
    /\ checked.state = "err"
    /\ checked.err = <<"Type mismatch: expected ", "String", ", got ",
                       "Integer">>

(***************************************************************************)
(* C9: after a function declaration has been checked successfully, the     *)
(* checker's type environment equals the environment before the            *)
(* declaration plus the single binding of the function's name: the         *)
(* parameters and the names declared inside the body are not in it.        *)
(***************************************************************************)
C9_DeclarationBindsOnlyName ==
    [][/\ CheckingStatement
       /\ CheckedStatement.kind = "FunctionDeclaration"
       /\ StatementPassed
       =>
         LET before == type_checker.environment
             after  == type_checker'.environment
             name   == CheckedStatement.name
             n      == Len(before)
         IN  /\ Len(after) = n
             /\ \A k \in 1..(n - 1) : after[k] = before[k]
             /\ DOMAIN after[n] = DOMAIN before[n] \cup {name}
             /\ \A other \in DOMAIN before[n] \ {name} :
                   after[n][other] = before[n][other]
             /\ after[n][name].kind = "Function"]_vars

\* after the declaration of g, whose body declares f and h and calls h, a
\* call of h is a call of an undefined function
C9_Witness ==
    /\ Len(parsed.program) = 2
    /\ parsed.program[1].kind = "FunctionDeclaration"
    /\ parsed.program[1].name = "g"
    /\ Len(Declarations(parsed.program[1].body)) = 2
    /\ parsed.program[2] = StmtExpression(ExprFunctionCall("h", <<>>))
    /\ check_pos = 2
    /\ DOMAIN type_checker.environment[1] = {"print", "function", "g"}
    /\ checked.err = <<"Undefined function '", "h", "'">>

(***************************************************************************)
(* Names a statement refers to that are not bound where it refers to them, *)
(* given the names bound where the statement starts.  A bare identifier    *)
(* directly inside Type[...] is no reference.                              *)
(***************************************************************************)

RECURSIVE UnboundInExpression(_, _)
UnboundInExpression(names, expr) ==
    CASE expr.kind = "Identifier" -> expr.name \notin names
      [] expr.kind = "FunctionCall" ->
           \/ expr.name \notin names
           \/ \E k \in 1..Len(expr.arguments) :
                 UnboundInExpression(names, expr.arguments[k])
      [] expr.kind = "TypedValue" ->
           /\ expr.value.kind # "Identifier"
           /\ UnboundInExpression(names, expr.value)
      [] expr.kind = "BinaryOperation" ->
           \/ UnboundInExpression(names, expr.left)
           \/ UnboundInExpression(names, expr.right)
      [] OTHER -> FALSE

DeclaredNames(stmts) ==
    {Declarations(stmts)[k].name : k \in 1..Len(Declarations(stmts))}

RECURSIVE UnboundInStatement(_, _), UnboundInBody(_, _, _)
UnboundInStatement(names, stmt) ==
    CASE stmt.kind = "Expression" -> UnboundInExpression(names, stmt.expr)
      [] stmt.kind = "FunctionDeclaration" ->
           UnboundInBody(names \cup {stmt.name}
                           \cup {stmt.parameters[k].name :
                                   k \in 1..Len(stmt.parameters)},
                         stmt.body, 1)
      [] stmt.kind = "IfStatement" ->
           \/ UnboundInExpression(names, stmt.condition)
           \/ UnboundInBody(names, stmt.body, 1)
      [] OTHER -> FALSE

UnboundInBody(names, body, k) ==
    IF k > Len(body) THEN FALSE
    ELSE \/ UnboundInStatement(names, body[k])
         \/ UnboundInBody(names \cup DeclaredNames(<<body[k]>>), body, k + 1)

BoundNames(env) == UNION {DOMAIN env[k] : k \in 1..Len(env)}

(***************************************************************************)
(* C10: check_program fails whenever the program contains a reference to a *)
(* variable or function name that is not bound in the checker's scope      *)
(* chain at that point, wherever the reference occurs (statement, if       *)
(* condition, operand of is, or any argument of any call, including calls  *)
(* of print and function), a bare identifier directly inside Type[...]     *)
(* excepted; for an undefined function the message contains its name.      *)
(***************************************************************************)
C10_UndefinedReferenceFails ==
    [][/\ CheckingStatement
       /\ UnboundInStatement(BoundNames(type_checker.environment),
                             CheckedStatement)
       =>
         /\ StatementFailed
         /\ /\ CheckedStatement.kind = "Expression"
            /\ CheckedStatement.expr.kind = "FunctionCall"
            /\ CheckedStatement.expr.name
                 \notin BoundNames(type_checker.environment)
            => checked'.err = <<"Undefined function '",
                                CheckedStatement.expr.name, "'">>]_vars

(***************************************************************************)
(* Spec: main from Lexer::new on, on the input main.rs holds and on every  *)
(* text of at most MaxStatements lines of PipelineStatements.              *)
(***************************************************************************)

\* the lines of the raw string main passes to Lexer::new
MainLines ==
    <<"",
      "        // Define a custom function to greet someone",
      "        func greet(name: String) {",
      "            print(String[Hello], name)",
      "        }",
      "",
      "        // Call our custom function",
      "        greet(String[World])",
      "",
      "        // Test conditional execution with \"is\" operator",
      "        if String[Hello] is String[Hello] {",
      "            print(String[True])",
      "        }",
      "",
      "        // Test conditional execution with \"is not\" operator",
      "        if String[Hello] is not String[Goodbye] {",
      "            print(String[Different])",
      "        }",
      "",
      "        // Use the built-in function",
      "        print(String[Answer], Integer[42])",
      "    ">>

RECURSIVE JoinLines(_)
JoinLines(lines) ==
    IF Len(lines) = 1 THEN Chars(lines[1])
    ELSE Chars(Head(lines)) \o <<"\n">> \o JoinLines(Tail(lines))

MainInput == JoinLines(MainLines)

PipelineStatements ==
    {"print(String[a])",
     "y",
     "print(",
     "}",
     "func f() { print(String[b]) }",
     "f()",
     "if String[a] is String[a] { print(Integer[2]) }"}

PipelineSources ==
    {MainInput}
      \cup Concats({Chars(statement) \o <<"\n">> :
                      statement \in PipelineStatements}, MaxStatements)

Init == \E text \in PipelineSources : Start(text)

Next == NextTokenStep \/ ParseStep \/ CheckStep \/ InterpretStep

Spec == Init /\ [][Next]_vars

(***************************************************************************)
(* C1: the stages run in the order tokenize, parse, check, interpret, and  *)
(* a later stage starts only if every earlier stage succeeded: if parse    *)
(* returned an error neither the checker nor the interpreter runs, if      *)
(* check_program returned an error the interpreter never runs, and a       *)
(* program that fails parsing or type checking writes no print output.     *)
(***************************************************************************)
C1_StagesInOrder ==
    /\ pc = "tokenize" =>
         parsed = Pending /\ (tokens = <<>> \/ tokens[Len(tokens)] # EOF)
    /\ parsed # Pending => tokens # <<>> /\ tokens[Len(tokens)] = EOF
    /\ type_checker.live \/ checked # Pending => parsed.state = "ok"
    /\ interpreter.live \/ ran # Pending \/ output # <<>> =>
         checked.state = "ok"
    /\ parsed.state = "err" =>
         /\ pc = "done"
         /\ ~type_checker.live /\ checked = Pending
         /\ ~interpreter.live /\ ran = Pending /\ output = <<>>
    /\ checked.state = "err" =>
         /\ pc = "done"
         /\ ~interpreter.live /\ ran = Pending /\ output = <<>>

\* print(String[a]) followed by the undefined y: the check has failed and
\* the print has written nothing
C1_Witness ==
    /\ pc = "done"
    /\ parsed.state = "ok"
    /\ Len(parsed.program) = 2
    /\ parsed.program[1] =
         StmtExpression(ExprFunctionCall("print",
             <<ExprTypedValue("String", ExprIdentifier("a"))>>))
    /\ checked.state = "err"
    /\ checked.err = <<"Undefined variable '", "y", "'">>
    /\ ~interpreter.live
    /\ output = <<>>

(***************************************************************************)
(* SpecRun: parser, checker and interpreter on the tokens of every program *)
(* of at most MaxLines lines of RunLines.                                  *)
(***************************************************************************)

MaxLines == 2

RunLines ==
    {"func f(x: String) { print(String[x]) }",
     "f(String[hi])",
     "print(String[f])",
     "print(Integer[f])",
     "print(String[String[f]])",
     "print(Integer[String[f]])",
     "func print(a: String) { print(String[body]) }",
     "print(String[x], String[y])",
     "func x() { } func f() { print(x) }",
     "func g(x: String) { f() } g(String[hi])",
     "func h() { print(String[a]) } func f() { h() }",
     "func h() { print(String[b]) } f()",
     "func h(p: String) { func h() { } func k() { } if h is not p { func m() { } } }",
     "h(String[a])",
     "func f() { }",
     "if f is f { func f(x: Unknown) { } } f(print(String[a]))",
     "func x() { } func f(x: Unknown, y: Unknown) { print(y) }",
     "f(print(String[a]), x)",
     "f(print(String[b]), Integer[f])",
     "func f() { print(String[a]) String[b] }",
     "print(String[c], f())",
     "print(f(), Integer[f])"}

RunSources ==
    Concats({Chars(line) \o <<"\n">> : line \in RunLines}, MaxLines)

InitRun == \E text \in RunSources : Tokenized(text)

NextRun == ParseStep \/ CheckStep \/ InterpretStep

SpecRun == InitRun /\ [][NextRun]_vars

(***************************************************************************)
(* Vocabulary of the interpreter properties.  A step of interpret is taken *)
(* from a state where RunningStatement holds; RunStatement is the          *)
(* statement it executes.                                                  *)
(***************************************************************************)

RunningStatement == pc = "interpret" /\ run_pos <= Len(parsed.program)

RunStatement == parsed.program[run_pos]

\* the step went through the statement / returned the error msg
StatementRan == pc' = "interpret" /\ run_pos' = run_pos + 1

StatementRaised(msg) == pc' = "done" /\ ran' = Failed(msg)

\* a statement that is a call of print
PrintCall(stmt) ==
    /\ stmt.kind = "Expression"
    /\ stmt.expr.kind = "FunctionCall"
    /\ stmt.expr.name = "print"

\* Type[ident]
LiteralTag(expr) == expr.kind = "TypedValue" /\ expr.value.kind = "Identifier"

LiteralTags(exprs) == \A k \in 1..Len(exprs) : LiteralTag(exprs[k])

StringTags(exprs) ==
    \A k \in 1..Len(exprs) :
       LiteralTag(exprs[k]) /\ exprs[k].type_name = "String"

\* the identifiers' texts
TagTexts(exprs) == [k \in 1..Len(exprs) |-> exprs[k].value.name]

\* the type a tag names
TagType(type_name) ==
    IF type_name = "String" THEN TypeString ELSE TypeInteger

\* the first Integer[ident] of exprs
FirstIntegerTag(exprs) ==
    exprs[CHOOSE k \in 1..Len(exprs) :
            /\ exprs[k].type_name = "Integer"
            /\ \A j \in 1..(k - 1) : exprs[j].type_name # "Integer"]

\* Checking print(Type[ident], ...) at top level, or a declaration whose
\* body is that print, passes whatever the identifiers are bound to.
TagsCheckedWithoutLookup ==
    CheckingStatement =>
      /\ /\ PrintCall(CheckedStatement)
         /\ LiteralTags(CheckedStatement.expr.arguments)
         => StatementPassed /\ type_checker' = type_checker
      /\ /\ CheckedStatement.kind = "FunctionDeclaration"
         /\ Len(CheckedStatement.body) = 1
         /\ PrintCall(CheckedStatement.body[1])
         /\ LiteralTags(CheckedStatement.body[1].expr.arguments)
         => StatementPassed

\* A call, with String[ident] arguments, of a function whose body is
\* print(String[ident], ...) prints the texts of the identifiers of the
\* body, parameters among them.
TagsPrintedByCall ==
    /\ RunningStatement
    /\ UserCall(RunStatement)
    /\ StringTags(RunStatement.expr.arguments)
    /\ ChainGet(interpreter.environment, RunStatement.expr.name).found
    =>
      LET function == ChainGet(interpreter.environment,
                               RunStatement.expr.name).value
      IN  /\ function.kind = "Function"
          /\ Len(function.parameters) = Len(RunStatement.expr.arguments)
          /\ \A k \in 1..Len(function.parameters) :
                function.parameters[k].name # "print"
          /\ Len(function.body) = 1
          /\ PrintCall(function.body[1])
          /\ StringTags(function.body[1].expr.arguments)
          => /\ StatementRan
             /\ output' = output \o TagTexts(function.body[1].expr.arguments)

\* print(Type[expr]) with expr no identifier: expr is checked / evaluated
\* and has to be of the tag's type
OtherTagsMatched ==
    /\ CheckingStatement
       /\ PrintCall(CheckedStatement)
       /\ Len(CheckedStatement.expr.arguments) = 1
       /\ CheckedStatement.expr.arguments[1].kind = "TypedValue"
       /\ ~LiteralTag(CheckedStatement.expr.arguments[1])
       =>
         LET tagged == CheckedStatement.expr.arguments[1]
             inner  == CheckExpression(type_checker.environment, tagged.value)
         IN  IF inner.ok /\ Compatible(inner.ty, TagType(tagged.type_name))
             THEN StatementPassed
             ELSE StatementFailed
    /\ RunningStatement
       /\ PrintCall(RunStatement)
       /\ Len(RunStatement.expr.arguments) = 1
       /\ RunStatement.expr.arguments[1].kind = "TypedValue"
       /\ ~LiteralTag(RunStatement.expr.arguments[1])
       =>
         LET tagged == RunStatement.expr.arguments[1]
             inner  == EvaluateExpression(interpreter.environment,
                                          tagged.value, 0)
         IN  IF inner.ok /\ inner.value.kind = tagged.type_name
             THEN /\ StatementRan
                  /\ output' = output \o inner.out
                                 \o <<ValueDisplay(inner.value)>>
             ELSE /\ pc' = "done"
                  /\ ran'.state = "err"
                  /\ output' = output \o inner.out

ArgumentValues(env, arguments) ==
    [k \in 1..Len(arguments) |-> EvaluateExpression(env, arguments[k], 0)]

\* the lines written while the arguments were evaluated, in argument order
RECURSIVE ArgumentLines(_)
ArgumentLines(values) ==
    IF values = <<>> THEN <<>>
    ELSE Head(values).out \o ArgumentLines(Tail(values))

\* one line per argument value
ValueLines(values) == [k \in 1..Len(values) |-> ValueDisplay(values[k].value)]

\* a function of that name is declared at top level ahead of statement k
DeclaredAhead(name, k) ==
    \E j \in 1..(k - 1) :
       /\ parsed.program[j].kind = "FunctionDeclaration"
       /\ parsed.program[j].name = name

(***************************************************************************)
(* C12: the built-in print is dispatched on the name field of the function *)
(* value found by lookup: once the program has declared a function named   *)
(* print, with any parameters and body, a later call print(...) whose      *)
(* arguments evaluate writes one line per argument, does not execute the   *)
(* declared body and is not subject to the arity check.                    *)
(***************************************************************************)
C12_PrintDispatchedByName ==
    [][/\ RunningStatement
       /\ PrintCall(RunStatement)
       /\ DeclaredAhead("print", run_pos)
       =>
         LET values == ArgumentValues(interpreter.environment,
                                      RunStatement.expr.arguments)
         IN  (\A k \in 1..Len(values) : values[k].ok) =>
               /\ StatementRan
               /\ output' = output \o ArgumentLines(values)
                              \o ValueLines(values)
               /\ interpreter' = interpreter]_vars

\* func print(a: String) { print(String[body]) } followed by
\* print(String[x], String[y]) has run: it printed x and y
C12_Witness ==
    /\ pc = "done"
    /\ ran.state = "ok"
    /\ Len(parsed.program) = 2
    /\ parsed.program[1].kind = "FunctionDeclaration"
    /\ parsed.program[1].name = "print"
    /\ parsed.program[1].parameters = <<Parameter("a", "String")>>
    /\ parsed.program[1].body # <<>>
    /\ parsed.program[2] =
         StmtExpression(ExprFunctionCall("print",
             <<ExprTypedValue("String", ExprIdentifier("x")),
               ExprTypedValue("String", ExprIdentifier("y"))>>))
    /\ output = <<"x", "y">>

\* a statement that is a call, without arguments, of a function other than
\* print and function
BareCall(stmt) == UserCall(stmt) /\ stmt.expr.arguments = <<>>

\* the parameters bind name
BoundByParameters(parameters, name) ==
    \E k \in 1..Len(parameters) : parameters[k].name = name

\* what name stands for in a scope holding the parameters, bound to the
\* texts of the String[ident] arguments, under the chain env
ResolvedAtCall(env, parameters, arguments, name) ==
    IF BoundByParameters(parameters, name)
    THEN ValueString(
             arguments[CHOOSE k \in 1..Len(parameters) :
                         /\ parameters[k].name = name
                         /\ \A j \in (k + 1)..Len(parameters) :
                               parameters[j].name # name].value.name)
    ELSE ChainGet(env, name).value

\* the line print(expr) writes for expr an identifier or a String[ident],
\* in a scope holding the parameters under the chain env
LineAtCall(env, parameters, arguments, expr) ==
    IF expr.kind = "Identifier"
    THEN ValueDisplay(ResolvedAtCall(env, parameters, arguments, expr.name))
    ELSE expr.value.name

(***************************************************************************)
(* C13: names that a function body does not bind itself are resolved       *)
(* against the caller's scope chain at call time, not against the bindings *)
(* at the function's declaration.  A top-level call c(...) whose body is   *)
(* the call d() runs the body that d is bound to when c is called, and a   *)
(* name which that body prints stands for c's parameter of that name, or   *)
(* else for its binding in the top-level scope when c is called.           *)
(***************************************************************************)
C13_ResolvedAtCallTime ==
    [][/\ RunningStatement
       /\ UserCall(RunStatement)
       /\ StringTags(RunStatement.expr.arguments)
       /\ ChainGet(interpreter.environment, RunStatement.expr.name).found
       =>
         LET env    == interpreter.environment
             call   == RunStatement.expr
             caller == ChainGet(env, call.name).value
         IN  /\ caller.kind = "Function"
             /\ Len(caller.parameters) = Len(call.arguments)
             /\ Len(caller.body) = 1
             /\ BareCall(caller.body[1])
             /\ ~BoundByParameters(caller.parameters,
                                   caller.body[1].expr.name)
             /\ ChainGet(env, caller.body[1].expr.name).found
             =>
               LET callee == ChainGet(env, caller.body[1].expr.name).value
               IN  /\ callee.kind = "Function"
                   /\ callee.name # "print"
                   /\ callee.parameters = <<>>
                   /\ Len(callee.body) = 1
                   /\ PrintCall(callee.body[1])
                   /\ Len(callee.body[1].expr.arguments) = 1
                   /\ LET printed == callee.body[1].expr.arguments[1]
                      IN  \/ /\ printed.kind = "Identifier"
                             /\ \/ BoundByParameters(caller.parameters,
                                                     printed.name)
                                \/ ChainGet(env, printed.name).found
                          \/ LiteralTag(printed)
                             /\ printed.type_name = "String"
                   =>
                     /\ StatementRan
                     /\ output' =
                          Append(output,
                                 LineAtCall(env, caller.parameters,
                                            call.arguments,
                                            callee.body[1].expr
                                              .arguments[1]))]_vars

\* func x() { } func f() { print(x) } followed by
\* func g(x: String) { f() } g(String[hi]) has run: f printed g's x
C13_Witness ==
    /\ pc = "done"
    /\ ran.state = "ok"
    /\ Len(parsed.program) = 4
    /\ parsed.program[1].kind = "FunctionDeclaration"
    /\ parsed.program[1].name = "x"
    /\ parsed.program[2].kind = "FunctionDeclaration"
    /\ parsed.program[2].body =
         <<StmtExpression(ExprFunctionCall("print", <<ExprIdentifier("x")>>))>>
    /\ parsed.program[3].kind = "FunctionDeclaration"
    /\ parsed.program[3].parameters = <<Parameter("x", "String")>>
    /\ parsed.program[4] =
         StmtExpression(ExprFunctionCall("g",
             <<ExprTypedValue("String", ExprIdentifier("hi"))>>))
    /\ output = <<"hi">>

\* func h() { print(String[a]) } func f() { h() } followed by
\* func h() { print(String[b]) } f() has run: f called the later h
C13_WitnessRedeclared ==
    /\ pc = "done"
    /\ ran.state = "ok"
    /\ Len(parsed.program) = 4
    /\ parsed.program[1].kind = "FunctionDeclaration"
    /\ parsed.program[1].name = "h"
    /\ parsed.program[3].kind = "FunctionDeclaration"
    /\ parsed.program[3].name = "h"
    /\ parsed.program[3] # parsed.program[1]
    /\ parsed.program[4] = StmtExpression(ExprFunctionCall("f", <<>>))
    /\ output = <<"b">>

(***************************************************************************)
(* C14: after any user-function call that completes without error, the     *)
(* interpreter's current environment is exactly the environment the caller *)
(* had before the call: parameter bindings and every name declared while   *)
(* the body ran are not visible to the caller afterwards, and no binding   *)
(* of the caller is changed.                                               *)
(***************************************************************************)
C14_CallRestoresEnvironment ==
    [][RunningStatement /\ UserCall(RunStatement) /\ StatementRan
       => interpreter' = interpreter]_vars

\* func h(p: String) { func h() { } func k() { } if h is not p { func m()
\* { } } } followed by h(String[a]) has run: the top-level scope holds
\* print and the h of the first statement, and nothing else
C14_Witness ==
    /\ pc = "done"
    /\ ran.state = "ok"
    /\ Len(parsed.program) = 2
    /\ parsed.program[1].kind = "FunctionDeclaration"
    /\ parsed.program[1].name = "h"
    /\ parsed.program[1].parameters = <<Parameter("p", "String")>>
    /\ Len(parsed.program[1].body) = 3
    /\ parsed.program[2] =
         StmtExpression(ExprFunctionCall("h",
             <<ExprTypedValue("String", ExprIdentifier("a"))>>))
    /\ Len(interpreter.environment) = 1
    /\ DOMAIN interpreter.environment[1] = {"print", "h"}
    /\ interpreter.environment[1]["h"].parameters = <<Parameter("p", "String")>>

\* the first argument whose evaluation fails
FirstFailed(values) ==
    CHOOSE k \in 1..Len(values) :
       ~values[k].ok /\ \A j \in 1..(k - 1) : values[j].ok

\* the last parameter of that name
LastParameter(parameters, name) ==
    CHOOSE k \in 1..Len(parameters) :
       /\ parameters[k].name = name
       /\ \A j \in (k + 1)..Len(parameters) : parameters[j].name # name

(***************************************************************************)
(* C15: in the interpreter, calling a non-print function with a number of  *)
(* arguments different from its parameter count fails with a message       *)
(* containing both the expected and the actual count; the count is checked *)
(* before any argument is evaluated, so no argument's print output occurs  *)
(* in that case; when the counts match all arguments are evaluated left to *)
(* right, in the caller's scope, before the callee scope is created.       *)
(***************************************************************************)
C15_ArityBeforeArguments ==
    [][/\ RunningStatement
       /\ UserCall(RunStatement)
       /\ ChainGet(interpreter.environment, RunStatement.expr.name).found
       =>
         LET env      == interpreter.environment
             call     == RunStatement.expr
             function == ChainGet(env, call.name).value
             values   == ArgumentValues(env, call.arguments)
         IN  function.kind = "Function" =>
               /\ Len(call.arguments) # Len(function.parameters) =>
                    /\ StatementRaised(
                         <<"Expected ",
                           IntToString(Len(function.parameters)),
                           " arguments but got ",
                           IntToString(Len(call.arguments))>>)
                    /\ output' = output
               /\ /\ Len(call.arguments) = Len(function.parameters)
                  /\ \E k \in 1..Len(values) : ~values[k].ok
                  =>
                    /\ StatementRaised(values[FirstFailed(values)].err)
                    /\ output' = output
                         \o ArgumentLines(SubSeq(values, 1,
                                                 FirstFailed(values)))
               /\ /\ Len(call.arguments) = Len(function.parameters)
                  /\ \A k \in 1..Len(values) : values[k].ok
                  /\ Len(function.body) = 1
                  /\ PrintCall(function.body[1])
                  /\ Len(function.body[1].expr.arguments) = 1
                  /\ function.body[1].expr.arguments[1].kind = "Identifier"
                  /\ BoundByParameters(
                         function.parameters,
                         function.body[1].expr.arguments[1].name)
                  =>
                    /\ StatementRan
                    /\ output' = output \o ArgumentLines(values)
                         \o <<ValueDisplay(
                                values[LastParameter(
                                         function.parameters,
                                         function.body[1].expr
                                           .arguments[1].name)].value)>>]_vars

\* func f() { } followed by if f is f { func f(x: Unknown) { } }
\* f(print(String[a])) has run: the call failed on the count and a was not
\* printed
C15_Witness ==
    /\ pc = "done"
    /\ ran = Failed(<<"Expected ", "0", " arguments but got ", "1">>)
    /\ Len(parsed.program) = 3
    /\ parsed.program[1].kind = "FunctionDeclaration"
    /\ parsed.program[1].parameters = <<>>
    /\ parsed.program[2].kind = "IfStatement"
    /\ parsed.program[3] =
         StmtExpression(ExprFunctionCall("f",
             <<ExprFunctionCall("print",
                   <<ExprTypedValue("String", ExprIdentifier("a"))>>)>>))
    /\ output = <<>>

\* func x() { } func f(x: Unknown, y: Unknown) { print(y) } followed by
\* f(print(String[a]), x) has run: a was printed, then the x of the caller
C15_WitnessCountsMatch ==
    /\ pc = "done"
    /\ ran.state = "ok"
    /\ Len(parsed.program) = 3
    /\ parsed.program[3] =
         StmtExpression(ExprFunctionCall("f",
             <<ExprFunctionCall("print",
                   <<ExprTypedValue("String", ExprIdentifier("a"))>>),
               ExprIdentifier("x")>>))
    /\ output = <<"a", "<function x>">>

(***************************************************************************)
(* SpecEqual: parser, checker and interpreter on the programs that declare *)
(* t, u and n (returning true, false and null) and print `a is b` and      *)
(* `a is not b`, for every two operands of EqualOperands.                  *)
(***************************************************************************)

EqualPrelude ==
    "func t() { String[a] is String[a] } "
      \o "func u() { String[a] is String[b] } func n() { }"

EqualOperands ==
    {"String[a]", "String[b]", "Integer[1]", "Integer[2]", "t()", "u()",
     "n()", "print()", "t", "u"}

EqualSources ==
    {Chars(EqualPrelude) \o <<"\n">>
       \o Chars("print(" \o a \o " is " \o b \o ", "
                         \o a \o " is not " \o b \o ")")
       \o <<"\n">> :
     a \in EqualOperands, b \in EqualOperands}

InitEqual == \E text \in EqualSources : Tokenized(text)

NextEqual == ParseStep \/ CheckStep \/ InterpretStep

SpecEqual == InitEqual /\ [][NextEqual]_vars

\* same variant among string, integer, boolean and null, and equal payloads
SameValue(a, b) ==
    /\ a.kind = b.kind
    /\ a.kind \in {"String", "Integer", "Boolean", "Null"}
    /\ a = b

BooleanLine(b) == IF b THEN "true" ELSE "false"

\* print(left is right, left is not right)
PrintsBothComparisons(stmt) ==
    /\ PrintCall(stmt)
    /\ Len(stmt.expr.arguments) = 2
    /\ stmt.expr.arguments[1].kind = "BinaryOperation"
    /\ stmt.expr.arguments[1].operator = "is"
    /\ stmt.expr.arguments[2].kind = "BinaryOperation"
    /\ stmt.expr.arguments[2].operator = "is not"
    /\ stmt.expr.arguments[2].left = stmt.expr.arguments[1].left
    /\ stmt.expr.arguments[2].right = stmt.expr.arguments[1].right

(***************************************************************************)
(* C16: for any two runtime values a and b, `a is b` evaluates to Boolean  *)
(* true exactly when a and b are of the same variant among string,         *)
(* integer, boolean, null and have equal payloads, `a is not b` evaluates  *)
(* to the exact negation of `a is b`, and neither ever returns an error;   *)
(* values of different variants are always unequal, and two function       *)
(* values are unequal even when they are the same function.                *)
(***************************************************************************)
C16_EqualityByVariantAndPayload ==
    [][RunningStatement /\ PrintsBothComparisons(RunStatement) =>
         LET a == EvaluateExpression(interpreter.environment,
                                     RunStatement.expr.arguments[1].left, 0)
             b == EvaluateExpression(interpreter.environment,
                                     RunStatement.expr.arguments[1].right, 0)
         IN  a.ok /\ b.ok =>
               /\ StatementRan
               /\ output' = output \o a.out \o b.out \o a.out \o b.out
                    \o <<BooleanLine(SameValue(a.value, b.value)),
                         BooleanLine(~SameValue(a.value, b.value))>>]_vars

\* print(t is t, t is not t) has run: a function is not itself
C16_Witness ==
    /\ pc = "done"
    /\ ran.state = "ok"
    /\ Len(parsed.program) = 4
    /\ parsed.program[4] =
         StmtExpression(ExprFunctionCall("print",
             <<ExprBinaryOperation(ExprIdentifier("t"), "is",
                                   ExprIdentifier("t")),
               ExprBinaryOperation(ExprIdentifier("t"), "is not",
                                   ExprIdentifier("t"))>>))
    /\ output = <<"false", "true">>

(***************************************************************************)
(* SpecResult: parser, checker and interpreter on the tokens of every      *)
(* program of at most MaxLines lines of ResultLines.                       *)
(***************************************************************************)

ResultLines ==
    {"func f() { String[a] }",
     "func f(x: String) { if x is x { String[a] } }",
     "func f() { print(String[c]) }",
     "print(f())",
     "print(f(String[b]))",
     "print(f() is String[a])",
     "f()",
     "if f is not f { print(String[c]) }",
     "// note"}

ResultSources ==
    Concats({Chars(line) \o <<"\n">> : line \in ResultLines}, MaxLines)

InitResult == \E text \in ResultSources : Tokenized(text)

NextResult == ParseStep \/ CheckStep \/ InterpretStep

SpecResult == InitResult /\ [][NextResult]_vars

\* TypeChecker::new().check_program(program)
CheckProgram(program) == CheckBody(TypeEnvironmentNew, program, 1)

\* Interpreter::new().interpret(program)
Interpret(program) ==
    ExecuteBody(EnvironmentNew, program, 1, ValueNull, <<>>, 0)

\* main has run the program through the interpreter
Interpreted == pc = "done" /\ ran.state # "pending"

\* statements that have a value and no side effect
PureStatements ==
    {StmtExpression(ExprTypedValue("String", ExprIdentifier("a"))),
     StmtExpression(ExprTypedValue("String", ExprIdentifier("b"))),
     StmtExpression(ExprTypedValue("Integer", ExprIntegerLiteral(1)))}

\* the programs that differ from program in the last statement of the body
\* of one top-level function declaration, a pure statement in both
LastStatementVariants(program) ==
    {[program EXCEPT ![k].body[Len(program[k].body)] = stmt] :
       k \in {j \in 1..Len(program) :
                /\ program[j].kind = "FunctionDeclaration"
                /\ program[j].body # <<>>
                /\ program[j].body[Len(program[j].body)] \in PureStatements},
       stmt \in PureStatements}

(***************************************************************************)
(* C17: the value of a function's last body statement is never observable: *)
(* for every program that passes type checking, replacing the last         *)
(* statement of a function body by one of a different value (without side  *)
(* effects) does not change the lines the program prints.                  *)
(***************************************************************************)
C17_LastValueUnobservable ==
    Interpreted =>
      \A variant \in LastStatementVariants(parsed.program) :
         CheckProgram(variant).ok => Interpret(variant).out = output

\* sequence stmts with stmt put in ahead of position k
InsertAt(stmts, k, stmt) ==
    SubSeq(stmts, 1, k - 1) \o <<stmt>> \o SubSeq(stmts, k, Len(stmts))

\* the statement sequences that are stmts with one comment put in at a
\* statement position: of stmts itself, or of the body of a function
\* declaration or an if of stmts, at any depth
RECURSIVE CommentInserts(_)
CommentInserts(stmts) ==
    {InsertAt(stmts, k, StmtComment("note")) : k \in 1..(Len(stmts) + 1)}
      \cup UNION {{[stmts EXCEPT ![k].body = body] :
                     body \in CommentInserts(stmts[k].body)} :
                  k \in {j \in 1..Len(stmts) :
                           stmts[j].kind \in {"FunctionDeclaration",
                                              "IfStatement"}}}

(***************************************************************************)
(* C18: a comment statement carries no semantics: inserting a comment at   *)
(* any statement position of a program (top level, inside a function body, *)
(* inside an if body, including as the last statement of a body) changes   *)
(* neither the outcome of type checking nor the lines printed by the       *)
(* interpreter.                                                            *)
(***************************************************************************)
C18_CommentNoSemantics ==
    /\ pc = "done" /\ checked.state # "pending" =>
         \A variant \in CommentInserts(parsed.program) :
            /\ CheckProgram(variant).ok = (checked.state = "ok")
            /\ CheckProgram(variant).err = checked.err
    /\ Interpreted =>
         \A variant \in CommentInserts(parsed.program) :
            Interpret(variant).out = output

(***************************************************************************)
(* SpecEnvironment: extend, define and assign on the scope chain of        *)
(* Environment::new(), with the names of EnvironmentNames, the values of   *)
(* EnvironmentValues and at most MaxScopes scopes.  ran holds what the     *)
(* last assign returned.                                                   *)
(***************************************************************************)

MaxScopes == 3

EnvironmentNames == {"x", "y"}

EnvironmentValues == {ValueInteger(1), ValueString("a")}

InitEnvironment ==
    /\ source = <<>>
    /\ lexer = [input |-> <<>>, current_char |-> None]
    /\ tokens = <<>>
    /\ pc = "environment"
    /\ parsed = Pending
    /\ type_checker = NotCreated
    /\ check_pos = 1
    /\ checked = Pending
    /\ interpreter = Created(EnvironmentNew)
    /\ run_pos = 1
    /\ output = <<>>
    /\ ran = Pending

\* environment = Environment::extend(environment)
ExtendStep ==
    /\ pc = "environment"
    /\ Len(interpreter.environment) < MaxScopes
    /\ interpreter' = Created(ChainExtend(interpreter.environment))
    /\ UNCHANGED <<source, lexer, tokens, pc, parsed, type_checker,
                   check_pos, checked, run_pos, output, ran>>

\* environment.define(name, v)
DefineStep(name, v) ==
    /\ pc = "environment"
    /\ interpreter' = Created(ChainDefine(interpreter.environment, name, v))
    /\ UNCHANGED <<source, lexer, tokens, pc, parsed, type_checker,
                   check_pos, checked, run_pos, output, ran>>

\* environment.assign(name, v)
AssignStep(name, v) ==
    /\ pc = "environment"
    /\ LET r == ChainAssign(interpreter.environment, name, v)
       IN  /\ interpreter' = Created(r.env)
           /\ ran' = IF r.ok THEN Succeeded(<<>>) ELSE Failed(r.err)
    /\ UNCHANGED <<source, lexer, tokens, pc, parsed, type_checker,
                   check_pos, checked, run_pos, output>>

NextEnvironment ==
    \/ ExtendStep
    \/ \E name \in EnvironmentNames, v \in EnvironmentValues :
          DefineStep(name, v)
    \/ \E name \in EnvironmentNames, v \in EnvironmentValues :
          AssignStep(name, v)

SpecEnvironment == InitEnvironment /\ [][NextEnvironment]_vars

\* the scopes of env that have the name
ScopesWith(env, name) == {k \in 1..Len(env) : name \in DOMAIN env[k]}

\* the nearest of them: the one closest to the current scope
NearestWith(env, name) ==
    CHOOSE k \in ScopesWith(env, name) : \A j \in ScopesWith(env, name) : j <= k

\* get returns the binding of the nearest scope that has the name, None
\* when no scope has it
GetsNearest(env) ==
    \A name \in EnvironmentNames \cup {"print"} :
       IF ScopesWith(env, name) = {}
       THEN ~ChainGet(env, name).found
       ELSE /\ ChainGet(env, name).found
            /\ ChainGet(env, name).value = env[NearestWith(env, name)][name]

\* after differs from before in the binding of name in scope k, now v, and
\* in nothing else
OnlyBindingSet(before, after, k, name, v) ==
    /\ Len(after) = Len(before)
    /\ \A j \in 1..Len(before) :
          /\ DOMAIN after[j] =
               DOMAIN before[j] \cup (IF j = k THEN {name} ELSE {})
          /\ \A other \in DOMAIN before[j] :
                j # k \/ other # name => after[j][other] = before[j][other]
    /\ after[k][name] = v

(***************************************************************************)
(* C19: environment operations over a scope chain: get returns the binding *)
(* of the nearest scope that has the name, walking from the current scope  *)
(* to the root; define inserts or overwrites only in the current scope and *)
(* leaves every ancestor scope unchanged; assign overwrites only the       *)
(* nearest existing binding of the name and leaves all other bindings      *)
(* unchanged; assign of a name bound nowhere in the chain returns an error *)
(* and leaves every scope of the chain unchanged.                          *)
(***************************************************************************)
C19_EnvironmentOperations ==
    [][/\ GetsNearest(interpreter.environment)
       /\ GetsNearest(interpreter'.environment)
       /\ \A name \in EnvironmentNames, v \in EnvironmentValues :
             /\ DefineStep(name, v) =>
                  OnlyBindingSet(interpreter.environment,
                                 interpreter'.environment,
                                 Len(interpreter.environment), name, v)
             /\ AssignStep(name, v) =>
                  IF ScopesWith(interpreter.environment, name) = {}
                  THEN /\ ran' = Failed(<<"Undefined variable '", name, "'">>)
                       /\ interpreter' = interpreter
                  ELSE /\ ran' = Succeeded(<<>>)
                       /\ OnlyBindingSet(
                            interpreter.environment,
                            interpreter'.environment,
                            NearestWith(interpreter.environment, name),
                            name, v)]_vars

\* an assign has returned Ok on a chain of three scopes where x is bound in
\* the root and the middle scope and not in the current one, to different
\* values, and y is bound nowhere
C19_Witness ==
    /\ pc = "environment"
    /\ ran.state = "ok"
    /\ Len(interpreter.environment) = 3
    /\ ScopesWith(interpreter.environment, "x") = {1, 2}
    /\ interpreter.environment[1]["x"] = ValueInteger(1)
    /\ interpreter.environment[2]["x"] = ValueString("a")
    /\ ScopesWith(interpreter.environment, "y") = {}

(***************************************************************************)
(* C20: a print call evaluates all of its arguments left to right before   *)
(* it writes anything, then writes one line per argument in argument       *)
(* order: output produced while evaluating an argument precedes every line *)
(* of the enclosing print, and if the evaluation of any argument returns   *)
(* an error the enclosing print writes no line at all; lines written       *)
(* before the first runtime error stay written and nothing is written      *)
(* after it.                                                               *)
(***************************************************************************)
C20_PrintAfterArguments ==
    [][/\ RunningStatement /\ PrintCall(RunStatement) =>
            LET values == ArgumentValues(interpreter.environment,
                                         RunStatement.expr.arguments)
            IN  IF \A k \in 1..Len(values) : values[k].ok
                THEN /\ StatementRan
                     /\ output' = output \o ArgumentLines(values)
                                    \o ValueLines(values)
                ELSE /\ StatementRaised(values[FirstFailed(values)].err)
                     /\ output' = output
                          \o ArgumentLines(SubSeq(values, 1,
                                                  FirstFailed(values)))
       /\ Len(output') >= Len(output)
       /\ SubSeq(output', 1, Len(output)) = output
       /\ ran.state = "err" => output' = output
       /\ ran'.state = "err" => pc' = "done"]_vars

\* func f() { print(String[a]) String[b] } followed by
\* print(String[c], f()) has run: the a of the nested print comes first
C20_Witness ==
    /\ pc = "done"
    /\ ran.state = "ok"
    /\ Len(parsed.program) = 2
    /\ parsed.program[1].kind = "FunctionDeclaration"
    /\ Len(parsed.program[1].body) = 2
    /\ parsed.program[2] =
         StmtExpression(ExprFunctionCall("print",
             <<ExprTypedValue("String", ExprIdentifier("c")),
               ExprFunctionCall("f", <<>>)>>))
    /\ output = <<"a", "c", "b">>

\* func f() { print(String[a]) String[b] } followed by
\* print(f(), Integer[f]) has failed on Integer[f]: the nested a is written
\* and no line of the enclosing print
C20_WitnessError ==
    /\ pc = "done"
    /\ ran = Failed(<<"Cannot convert '", "f", "' to Integer">>)
    /\ Len(parsed.program) = 2
    /\ parsed.program[2] =
         StmtExpression(ExprFunctionCall("print",
             <<ExprFunctionCall("f", <<>>),
               ExprTypedValue("Integer", ExprIdentifier("f"))>>))
    /\ output = <<"a">>

\* a message of the interpreter's name lookups or of its argument count
NameOrCountError(msg) ==
    \/ msg[1] \in {"Undefined function '", "Undefined variable '", "Expected "}
    \/ msg[Len(msg)] = "' is not a function"

(***************************************************************************)
(* C21: the checker's name and arity checks cover the interpreter's: every *)
(* program for which check_program succeeds is interpreted without an      *)
(* Undefined function, Undefined variable, is not a function or            *)
(* argument-count error.                                                   *)
(***************************************************************************)
C21_CheckCoversInterpreter ==
    ran.state = "err" => ~NameOrCountError(ran.err)

(***************************************************************************)
(* SpecBoolean: parser, checker and interpreter on the tokens of every     *)
(* program of at most MaxLines lines of BooleanLines.                      *)
(***************************************************************************)

BooleanLines ==
    {"func f(x: Boolean) { if x { print(x) } }",
     "f(String[a] is String[a])",
     "func g(u: Unknown) { f(u) } g(String[a])",
     "func f(x: String) { print(x) }",
     "f(String[a])",
     "True",
     "print(False)",
     "print(String[True])",
     "func True() { }",
     "func g(False: String) { }",
     "function(String[a], True)",
     "if String[a] is String[a] { print(String[a] is not String[a]) }"}

BooleanSources ==
    Concats({Chars(line) \o <<"\n">> : line \in BooleanLines}, MaxLines)

InitBoolean == \E text \in BooleanSources : Tokenized(text)

NextBoolean == ParseStep \/ CheckStep \/ InterpretStep

SpecBoolean == InitBoolean /\ [][NextBoolean]_vars

BooleanNames == {"True", "False"}

\* the function declarations of stmts, at any depth
RECURSIVE DeclarationsWithin(_)
DeclarationsWithin(stmts) ==
    UNION {CASE stmts[k].kind = "FunctionDeclaration" ->
                  {stmts[k]} \cup DeclarationsWithin(stmts[k].body)
             [] stmts[k].kind = "IfStatement" ->
                  DeclarationsWithin(stmts[k].body)
             [] OTHER -> {} :
           k \in 1..Len(stmts)}

\* the parameters of those declarations
ParametersWithin(stmts) ==
    UNION {{decl.parameters[k] : k \in 1..Len(decl.parameters)} :
           decl \in DeclarationsWithin(stmts)}

\* the names a scope can get from stmts: function and parameter names
NamesBoundWithin(stmts) ==
    {decl.name : decl \in DeclarationsWithin(stmts)}
      \cup {parameter.name : parameter \in ParametersWithin(stmts)}

\* how many nodes of the tree are the identifier reference name
RECURSIVE References(_, _), ReferencesIn(_, _, _)
References(node, name) ==
    CASE node.kind = "Identifier" -> IF node.name = name THEN 1 ELSE 0
      [] node.kind = "FunctionCall" -> ReferencesIn(node.arguments, name, 1)
      [] node.kind = "TypedValue" -> References(node.value, name)
      [] node.kind = "BinaryOperation" ->
           References(node.left, name) + References(node.right, name)
      [] node.kind = "Expression" -> References(node.expr, name)
      [] node.kind = "FunctionDeclaration" -> ReferencesIn(node.body, name, 1)
      [] node.kind = "IfStatement" ->
           References(node.condition, name) + ReferencesIn(node.body, name, 1)
      [] OTHER -> 0

ReferencesIn(nodes, name, k) ==
    IF k > Len(nodes) THEN 0
    ELSE References(nodes[k], name) + ReferencesIn(nodes, name, k + 1)

\* how many tokens are tok
TokenCount(toks, tok) == Cardinality({k \in 1..Len(toks) : toks[k] = tok})

\* True and False are tokens of their own, each parsed as one identifier
\* reference of that name; no function or parameter has such a name, and
\* no scope of the checker or the interpreter binds one
BooleanNamesUnbound ==
    /\ \A k \in 1..Len(tokens) :
          tokens[k].type = "Identifier" => tokens[k].text \notin BooleanNames
    /\ parsed.state = "ok" =>
         /\ ReferencesIn(parsed.program, "True", 1)
              = TokenCount(tokens, Tok("TypeTrue"))
         /\ ReferencesIn(parsed.program, "False", 1)
              = TokenCount(tokens, Tok("TypeFalse"))
         /\ NamesBoundWithin(parsed.program) \cap BooleanNames = {}
    /\ type_checker.live =>
         BoundNames(type_checker.environment) \cap BooleanNames = {}
    /\ interpreter.live =>
         BoundNames(interpreter.environment) \cap BooleanNames = {}

\* the program has no is / is not
NoEquality ==
    \A k \in 1..Len(parsed.program) : ~HasEquality(parsed.program[k])

\* a function type of the scope chain has a Boolean parameter
BooleanParameter(env) ==
    \E name \in BoundNames(env) :
       /\ ChainGet(env, name).value.kind = "Function"
       /\ \E k \in 1..Len(ChainGet(env, name).value.parameters) :
             ChainGet(env, name).value.parameters[k] = TypeBoolean

\* In a program without is / is not, and when declared the program
\* declares no parameter of those type names: the checker's scope has no
\* Boolean parameter type and no checked statement has type Boolean; once
\* the check has passed, no executed statement and no argument of it has a
\* Boolean value.
BooleansFromEquality(declared) ==
    /\ parsed.state = "ok"
    /\ NoEquality
    /\ \A parameter \in ParametersWithin(parsed.program) :
          parameter.type_name \notin declared
    =>
      /\ type_checker.live => ~BooleanParameter(type_checker.environment)
      /\ CheckingStatement =>
           CheckStatement(type_checker.environment, CheckedStatement).ty
             # TypeBoolean
      /\ RunningStatement =>
           /\ ExecuteStatement(interpreter.environment, RunStatement, 0)
                .value.kind # "Boolean"
           /\ /\ RunStatement.kind = "Expression"
              /\ RunStatement.expr.kind = "FunctionCall"
              =>
                \A k \in 1..Len(RunStatement.expr.arguments) :
                   ArgumentValues(interpreter.environment,
                                  RunStatement.expr.arguments)[k]
                     .value.kind # "Boolean"

C22_WitnessDeclared ==
    /\ pc = "done"
    /\ ran.state = "ok"
    /\ NoEquality
    /\ Len(parsed.program) = 3
    /\ parsed.program[1].kind = "FunctionDeclaration"
    /\ parsed.program[1].parameters = <<Parameter("x", "Boolean")>>
    /\ output = <<"a">>












====
